---- MODULE Spec2Model ----
(***************************************************************************)
(* Record-extraction and flattening engine of rare-disease-diagnosis:      *)
(* the ontology tag-block reader and its conversion (parse_hpo_obo.py),    *)
(* the synonym decomposer, the Orphanet XML flatteners                     *)
(* (parse_orpha_xml1/6/7.py), the streaming link parser                    *)
(* (parse_orpha_xml4.py), the annotation reader (parse_phenotype_hpoa.py)  *)
(* and the tree navigation functions (utils/xml_utlis.py).                 *)
(*                                                                         *)
(* Text of the line-oriented formats is a sequence of one-character        *)
(* strings, so that strip, startswith, split and the regular expression    *)
(* are computed character by character.  A Python Optional is a sequence   *)
(* of length 0 (None) or 1.                                                *)
(***************************************************************************)
EXTENDS Naturals, Sequences, FiniteSets, TLC

VARIABLES
    \* parse_obo_file
    stream,         \* the raw lines of the file consumed so far by `for line in f`
    current_block,  \* the generator's current_block
    yielded,        \* the Terms yielded so far, in order
    obo_pc,         \* "reading" | "done" | "idle"
    \* extract_synonym_details
    synonym,        \* the argument: how it was put together, and its characters
    syn_result,     \* None before the call, then the returned triple
    \* convert of parse_orpha_xml1 / parse_orpha_xml6 / parse_orpha_xml7
    xkind,          \* which module's convert runs: "xml1" | "xml6" | "xml7"
    doc,            \* the root element of the parsed input document
    file0,          \* the output path before the call: None (absent) or its content
    out_file,       \* the output path now: None (absent) or the rows written
    disorders,      \* root.findall('.//Disorder')
    xi,             \* index in disorders of the next entity of the writing loop
    xpc,            \* "idle" | "called" | "start" | "writing" | "returned" | "raised" | "oserror"
    \* the surroundings of a convert call
    logs,           \* the levels of the entries logged so far, in order
    fault,          \* what the file system holds against the call, "none" when nothing
    counts,         \* total_rows and valid_rows of the annotation reader
    run,            \* 1 in the first call of convert, 2 in the call repeated after it
    first_out,      \* None, or the output file the first call left
    cleared,        \* the indices of the delivered elements on which elem.clear() was called
    handles,        \* the file handles convert has opened and not closed: "input", "output"
    \* a call of one of the functions of utils/xml_utlis.py
    nav_call,       \* the function called and its arguments parent, name, lang, default
    nav_result      \* None before the call has returned, then the value returned

oboVars == <<stream, current_block, yielded, obo_pc>>
synVars == <<synonym, syn_result>>
xmlVars ==
    <<xkind, doc, file0, out_file, disorders, xi, xpc, logs, fault, counts, run, first_out,
      cleared, handles>>
navVars == <<nav_call, nav_result>>
vars == <<oboVars, synVars, xmlVars, navVars>>

-----------------------------------------------------------------------------
(* Bounds *)
MaxLines == 4
MaxDisorders == 2
MaxRecords == 3

-----------------------------------------------------------------------------
(* Characters and the str methods used by the parsers *)

None == <<>>
Some(x) == <<x>>

\* str.isspace for the characters of the model's alphabet
IsSpaceCh(c) == c \in {" ", "\t"}

RECURSIVE Lstrip(_)
Lstrip(s) == IF s # <<>> /\ IsSpaceCh(Head(s)) THEN Lstrip(Tail(s)) ELSE s

RECURSIVE Rstrip(_)
Rstrip(s) ==
    IF s # <<>> /\ IsSpaceCh(s[Len(s)]) THEN Rstrip(SubSeq(s, 1, Len(s) - 1)) ELSE s

Strip(s) == Rstrip(Lstrip(s))

StartsWith(s, p) == Len(s) >= Len(p) /\ SubSeq(s, 1, Len(p)) = p

\* index of the first occurrence of ": " in line, 0 when there is none
FindSep(line) ==
    LET hits == {i \in 1..(Len(line) - 1) : line[i] = ":" /\ line[i + 1] = " "}
    IN IF hits = {} THEN 0 ELSE CHOOSE i \in hits : \A j \in hits : i <= j

-----------------------------------------------------------------------------
(* parse_hpo_obo.py: the tag-block reader *)

TermMarker == <<"[", "T", "e", "r", "m", "]">>

MultiValuedTags ==
    { <<"s","y","n","o","n","y","m">>,
      <<"x","r","e","f">>,
      <<"a","l","t","_","i","d">>,
      <<"i","s","_","a">>,
      <<"i","n","t","e","r","s","e","c","t","i","o","n","_","o","f">>,
      <<"d","i","s","j","o","i","n","t","_","f","r","o","m">> }

\* parse_tag_value: <<tag, value>>
ParseTagValue(line) ==
    LET i == FindSep(line)
    IN IF i = 0
       THEN <<line, <<>>>>
       ELSE <<Strip(SubSeq(line, 1, i - 1)), Strip(SubSeq(line, i + 2, Len(line)))>>

\* term[tag] = [value]: every tag overwritten, the multi-valued ones too
RecordValueOverwrite(term, tag, value) ==
    [t \in DOMAIN term \cup {tag} |-> IF t = tag THEN <<value>> ELSE term[t]]

\* lines 42-49: a value-bearing tag is appended to its list or replaces it
RecordValue(term, tag, value) ==
    IF tag \in MultiValuedTags
    THEN [t \in DOMAIN term \cup {tag} |->
            IF t = tag
            THEN (IF tag \in DOMAIN term THEN Append(term[tag], value) ELSE <<value>>)
            ELSE term[t]]
    ELSE [t \in DOMAIN term \cup {tag} |-> IF t = tag THEN <<value>> ELSE term[t]]

\* lines 31-34: term[current_tag][-1] += ' ' + line.strip()
Continue(st, line) ==
    IF st.current_tag # None /\ st.current_tag[1] # <<>>
       /\ st.current_tag[1] \in DOMAIN st.term
    THEN LET tag == st.current_tag[1]
             vals == st.term[tag]
             n == Len(vals)
         IN [st EXCEPT !.term[tag][n] = vals[n] \o <<" ">> \o Strip(line)]
    ELSE st

\* one iteration of the loop of parse_term_block over lines[1:]
TermStep(st, line) ==
    IF Strip(line) = <<>>
    THEN st
    ELSE IF line[1] = " "
    THEN Continue(st, line)
    ELSE LET tv == ParseTagValue(line)
         IN IF tv[2] = <<>>
            THEN [st EXCEPT !.current_tag = Some(tv[1])]
            ELSE [term |-> RecordValue(st.term, tv[1], tv[2]),
                  current_tag |-> Some(tv[1])]

RECURSIVE ScanLines(_, _)
ScanLines(st, lines) ==
    IF lines = <<>> THEN st ELSE ScanLines(TermStep(st, Head(lines)), Tail(lines))

\* the loop state of parse_term_block after all of lines[1:]
ScanBlock(lines) == ScanLines([term |-> <<>>, current_tag |-> None], Tail(lines))

\* parse_term_block: None, or the dictionary tag -> list of values
ParseTermBlock(lines) ==
    IF lines = <<>> \/ ~StartsWith(lines[1], TermMarker)
    THEN None
    ELSE Some(ScanBlock(lines).term)

\* term_dict = parse_term_block(block); if term_dict: yield term_dict
Emit(block) ==
    LET term_dict == ParseTermBlock(block)
    IN IF term_dict # None /\ DOMAIN term_dict[1] # {} THEN <<term_dict[1]>> ELSE <<>>


\* the reader is not run
OboIdle ==
    /\ stream = <<>>
    /\ current_block = <<>>
    /\ yielded = <<>>
    /\ obo_pc = "idle"

\* no function of utils/xml_utlis.py is called
NavIdle ==
    /\ nav_call = [fn |-> "none"]
    /\ nav_result = None

\* no conversion is run
XmlIdle ==
    /\ xkind = "none"
    /\ doc = <<>>
    /\ file0 = None
    /\ out_file = None
    /\ disorders = <<>>
    /\ xi = 0
    /\ xpc = "idle"
    /\ logs = <<>>
    /\ fault = "none"
    /\ counts = [total |-> 0, valid |-> 0]
    /\ run = 1
    /\ first_out = None
    /\ cleared = {}
    /\ handles = {}

-----------------------------------------------------------------------------
(* parse_hpo_obo.py: extract_synonym_details *)

Quote == "\""

\* \w and \s over the characters of the model's alphabet
IsWordCh(c) == c \in {"a", "b", "E", "l", "s", "x", "_", "1"}

\* greedy \s* from index p: the first index >= p of s that holds no whitespace
SkipSpace(s, p) ==
    LET stops == {i \in p..Len(s) : ~IsSpaceCh(s[i])}
    IN IF stops = {} THEN Len(s) + 1 ELSE CHOOSE i \in stops : \A j \in stops : i <= j

\* greedy \w* from index p: the first index >= p of s that holds no word character
SkipWord(s, p) ==
    LET stops == {i \in p..Len(s) : ~IsWordCh(s[i])}
    IN IF stops = {} THEN Len(s) + 1 ELSE CHOOSE i \in stops : \A j \in stops : i <= j

\* the first index >= p of s holding ch, 0 when there is none
IndexFrom(s, p, ch) ==
    LET hits == {i \in p..Len(s) : s[i] = ch}
    IN IF hits = {} THEN 0 ELSE CHOOSE i \in hits : \A j \in hits : i <= j

\* "([^"]*)" : a quoted text that may be empty
QuotedEndStar(s) ==
    IF s # <<>> /\ s[1] = Quote /\ IndexFrom(s, 2, Quote) >= 2
    THEN IndexFrom(s, 2, Quote) ELSE 0

\* "([^"]+)" at the start of s: the index of the closing quote, 0 when no match
QuotedEnd(s) ==
    IF s # <<>> /\ s[1] = Quote /\ IndexFrom(s, 2, Quote) >= 3
    THEN IndexFrom(s, 2, Quote) ELSE 0

\* \s*\[(.*?)\] from index p: the bracketed text, None when no match
BracketAt(s, p) ==
    LET b == SkipSpace(s, p)
    IN IF b <= Len(s) /\ s[b] = "[" /\ IndexFrom(s, b + 1, "]") # 0
       THEN Some(SubSeq(s, b + 1, IndexFrom(s, b + 1, "]") - 1))
       ELSE None

\* re.match(r'"([^"]+)"\s+(\w+)(?:\s+(\w+))?\s*\[(.*?)\]', synonym): the groups
\* text, syn_type, syn_subtype (None when the optional group took no part),
\* source; None when there is no match.  The optional group is tried first
\* and given up when the rest fails after it.
ReMatch(s) ==
    LET q == QuotedEnd(s)
        t0 == SkipSpace(s, q + 1)
        t1 == SkipWord(s, t0)
        u0 == SkipSpace(s, t1)
        u1 == SkipWord(s, u0)
    IN IF q = 0 \/ t0 = q + 1 \/ t1 = t0
       THEN None
       ELSE IF u0 > t1 /\ u1 > u0 /\ BracketAt(s, u1) # None
       THEN Some([text |-> SubSeq(s, 2, q - 1), syn_type |-> SubSeq(s, t0, t1 - 1),
                  syn_subtype |-> Some(SubSeq(s, u0, u1 - 1)),
                  source |-> BracketAt(s, u1)[1]])
       ELSE IF BracketAt(s, t1) # None
       THEN Some([text |-> SubSeq(s, 2, q - 1), syn_type |-> SubSeq(s, t0, t1 - 1),
                  syn_subtype |-> None,
                  source |-> BracketAt(s, t1)[1]])
       ELSE None

\* full_type = syn_type: the subtype left out
FullTypeNoSubtype(syn_type, syn_subtype) == syn_type

\* full_type = f"{syn_type} {syn_subtype}" if syn_subtype else syn_type
FullType(syn_type, syn_subtype) ==
    IF syn_subtype # None /\ syn_subtype[1] # <<>>
    THEN syn_type \o <<" ">> \o syn_subtype[1]
    ELSE syn_type

\* extract_synonym_details: <<synonym_text, synonym_type, source>>
ExtractSynonymDetails(s) ==
    LET match == ReMatch(s)
    IN IF match = None
       THEN <<s, <<>>, <<>>>>
       ELSE <<Strip(match[1].text),
              Strip(FullType(match[1].syn_type, match[1].syn_subtype)),
              Strip(match[1].source)>>

\* The synonym strings: the parts of the shape "<text>" <TYPE> [<SUBTYPE>] [<source>]
\* and the ways a string falls short of it.
SynParts ==
    [text : { <<"a">>, <<" ", "a">>, <<"a", " ", "b">>, <<>> },
     gap1 : { <<" ">>, <<" ", " ">> },
     type : { <<"E">>, <<"E", "_", "1">> },
     subtype : { None, Some(<<"l">>) },
     gap3 : { <<>>, <<" ">> },
     source : { <<>>, <<"s">>, <<" ", "s", " ">> },
     tail : { <<>>, <<" ", "x">> },
     defect : { "none", "noquotes", "unclosedquote", "nogap", "notype", "hyphentype",
                "threetokens", "nobracket", "unclosedbracket", "prefixed" }]

Tokens(p) ==
    p.type \o (IF p.subtype = None THEN <<>> ELSE <<" ">> \o p.subtype[1])

Bracket(p) == p.gap3 \o <<"[">> \o p.source \o <<"]">> \o p.tail

BuildSynonym(p) ==
    CASE p.defect = "none" ->
            <<Quote>> \o p.text \o <<Quote>> \o p.gap1 \o Tokens(p) \o Bracket(p)
      [] p.defect = "noquotes" ->
            p.text \o p.gap1 \o Tokens(p) \o Bracket(p)
      [] p.defect = "unclosedquote" ->
            <<Quote>> \o p.text \o p.gap1 \o Tokens(p) \o Bracket(p)
      [] p.defect = "nogap" ->
            <<Quote>> \o p.text \o <<Quote>> \o Tokens(p) \o Bracket(p)
      [] p.defect = "notype" ->
            <<Quote>> \o p.text \o <<Quote>> \o p.gap1 \o Bracket(p)
      [] p.defect = "hyphentype" ->
            <<Quote>> \o p.text \o <<Quote>> \o p.gap1 \o <<"-">> \o Tokens(p) \o Bracket(p)
      [] p.defect = "threetokens" ->
            <<Quote>> \o p.text \o <<Quote>> \o p.gap1 \o p.type \o <<" ", "l", " ", "x">>
                \o Bracket(p)
      [] p.defect = "nobracket" ->
            <<Quote>> \o p.text \o <<Quote>> \o p.gap1 \o Tokens(p) \o p.tail
      [] p.defect = "unclosedbracket" ->
            <<Quote>> \o p.text \o <<Quote>> \o p.gap1 \o Tokens(p) \o p.gap3
                \o <<"[">> \o p.source
      [] p.defect = "prefixed" ->
            <<"x", " ", Quote>> \o p.text \o <<Quote>> \o p.gap1 \o Tokens(p) \o Bracket(p)

SynIdle ==
    /\ synonym = [parts |-> None, chars |-> <<>>]
    /\ syn_result = None

SynInit ==
    /\ \E p \in SynParts : synonym = [parts |-> Some(p), chars |-> BuildSynonym(p)]
    /\ syn_result = None
    /\ OboIdle
    /\ XmlIdle
    /\ NavIdle

Extract ==
    /\ synonym.parts # None
    /\ syn_result = None
    /\ syn_result' = Some(ExtractSynonymDetails(synonym.chars))
    /\ UNCHANGED <<synonym, oboVars, xmlVars, navVars>>

SynNext == Extract

SpecSyn == SynInit /\ [][SynNext]_vars

-----------------------------------------------------------------------------
(* parse_hpo_obo.py: parse_obo_file *)

\* the raw lines an input file is made of
Lines ==
    { TermMarker,
      <<>>,
      <<" ">>,
      <<"i","d",":"," ","a">>,
      <<"i","d",":"," ","b">>,
      <<"i","d">>,
      <<"x","r","e","f",":"," ","a">>,
      <<"x","r","e","f",":"," ","b">>,
      <<" ","c">>,
      <<"\t","i","d",":"," ","c">>,
      <<"[","T","e","r","m","]","x">> }

OboInit ==
    /\ stream = <<>>
    /\ current_block = <<>>
    /\ yielded = <<>>
    /\ obo_pc = "reading"
    /\ SynIdle
    /\ XmlIdle
    /\ NavIdle

\* for line in f: the next raw line is consumed
Read(raw) ==
    /\ obo_pc = "reading"
    /\ Len(stream) < MaxLines
    /\ stream' = Append(stream, raw)
    /\ UNCHANGED <<obo_pc, synVars, xmlVars, navVars>>

\* line == '[Term]': the open block is processed first, the new block opened
StartTerm ==
    \E raw \in Lines :
       LET line == Rstrip(raw)
       IN /\ Read(raw)
          /\ line = TermMarker
          /\ yielded' = (IF current_block # <<>>
                         THEN yielded \o Emit(current_block) ELSE yielded)
          /\ current_block' = <<line>>

\* the block is processed at the empty line and its lines are kept
BlankLineNoReset ==
    \E raw \in Lines :
       LET line == Rstrip(raw)
       IN /\ Read(raw)
          /\ line # TermMarker
          /\ line = <<>> /\ current_block # <<>>
          /\ yielded' = yielded \o Emit(current_block)
          /\ current_block' = current_block

\* not line and current_block: empty line marks end of block
BlankLine ==
    \E raw \in Lines :
       LET line == Rstrip(raw)
       IN /\ Read(raw)
          /\ line # TermMarker
          /\ line = <<>> /\ current_block # <<>>
          /\ yielded' = yielded \o Emit(current_block)
          /\ current_block' = <<>>

\* current_block or line.strip(): add line to current block
AddLine ==
    \E raw \in Lines :
       LET line == Rstrip(raw)
       IN /\ Read(raw)
          /\ line # TermMarker
          /\ ~(line = <<>> /\ current_block # <<>>)
          /\ (current_block # <<>> \/ Strip(line) # <<>>)
          /\ current_block' = Append(current_block, line)
          /\ UNCHANGED yielded

\* no branch taken: a blank line outside any block
SkipLine ==
    \E raw \in Lines :
       LET line == Rstrip(raw)
       IN /\ Read(raw)
          /\ line # TermMarker
          /\ ~(line = <<>> /\ current_block # <<>>)
          /\ ~(current_block # <<>> \/ Strip(line) # <<>>)
          /\ UNCHANGED <<current_block, yielded>>

\* the file is exhausted: process last block
EndOfStream ==
    /\ obo_pc = "reading"
    /\ yielded' = (IF current_block # <<>> THEN yielded \o Emit(current_block) ELSE yielded)
    /\ obo_pc' = "done"
    /\ UNCHANGED <<stream, current_block, synVars, xmlVars, navVars>>

OboNext == StartTerm \/ BlankLine \/ AddLine \/ SkipLine \/ EndOfStream

SpecObo == OboInit /\ [][OboNext]_vars

-----------------------------------------------------------------------------
(* xml.etree.ElementTree elements and utils/xml_utlis.py *)

\* An element: tag {ns}name (ns = "" when the tag carries no namespace), its
\* attributes as <<name, value>> pairs, its text (None or a text), its children.
Elem(ns, name, attrs, text, kids) ==
    [ns |-> ns, name |-> name, attrs |-> attrs, text |-> text, kids |-> kids]

\* A text: a core that neither starts nor ends with whitespace, between
\* leading and trailing whitespace.
Text(pre, core, post) == Some([pre |-> pre, core |-> core, post |-> post])

\* the str of a text, and str.strip() of it
RawText(t) == t.pre \o t.core \o t.post
StripText(t) == t.core

\* `if e.text`: the text is neither None nor ''
HasText(e) == e.text # None /\ Len(RawText(e.text[1])) > 0

\* (e.text or '').strip()
TextOrEmpty(e) == IF HasText(e) THEN StripText(e.text[1]) ELSE ""

\* elem.get(name, default)
GetAttr(e, name, default) ==
    IF \E a \in e.attrs : a[1] = name
    THEN (CHOOSE a \in e.attrs : a[1] = name)[2]
    ELSE default

\* xml_utlis.local: the tag with any {namespace} prefix removed
Local(e) == e.name

\* xml_utlis.find_first, parent None or Some(element): None, or the first direct
\* child whose local name is name
find_first(parent, name) ==
    IF parent = None
    THEN None
    ELSE LET kids == parent[1].kids
             hits == {i \in 1..Len(kids) : Local(kids[i]) = name}
         IN IF hits = {}
            THEN None
            ELSE Some(kids[CHOOSE i \in hits : \A j \in hits : i <= j])

\* xml_utlis.find_all: [] for no parent, else the direct children of that local
\* name
find_all(parent, name) ==
    IF parent = None
    THEN <<>>
    ELSE SelectSeq(parent[1].kids, LAMBDA child : Local(child) = name)

\* xml_utlis.find_text
find_text(parent, name, default) ==
    LET node == find_first(parent, name)
    IN IF node # None /\ HasText(node[1]) THEN StripText(node[1].text[1]) ELSE default

\* xml_utlis.find_text_lang: the value returned is None where the function
\* returns None (lines 28-29), Some(text) where it returns a text
find_text_lang(parent, name, lang, default) ==
    IF parent = None
    THEN None
    ELSE LET kids == parent[1].kids
             hits == {i \in 1..Len(kids) :
                         /\ Local(kids[i]) = name
                         /\ GetAttr(kids[i], "lang", lang) = lang}
         IN IF hits = {}
            THEN Some(default)
            ELSE Some(TextOrEmpty(kids[CHOOSE i \in hits : \A j \in hits : i <= j]))

\* find_first of an element
FindFirst(parent, name) == find_first(Some(parent), name)

\* find_text of an element, with the default ""
FindText(parent, name) == find_text(Some(parent), name, "")

\* find_text_lang of an element, with the default ""
FindTextLang(parent, name, lang) == find_text_lang(Some(parent), name, lang, "")[1]

\* ElementTree matches a path step against the whole tag: no namespace
TagIs(e, name) == e.ns = "" /\ e.name = name

\* Element.findall(path), path a sequence of child tags
RECURSIVE ETFindAllIn(_, _)
RECURSIVE ETFindAll(_, _)
ETFindAllIn(kids, path) ==
    IF kids = <<>>
    THEN <<>>
    ELSE (IF ~TagIs(Head(kids), Head(path)) THEN <<>>
          ELSE IF Len(path) = 1 THEN <<Head(kids)>>
          ELSE ETFindAll(Head(kids), Tail(path)))
         \o ETFindAllIn(Tail(kids), path)
ETFindAll(e, path) == ETFindAllIn(e.kids, path)

\* Element.find(path)
ETFind(e, path) ==
    IF ETFindAll(e, path) = <<>> THEN None ELSE Some(Head(ETFindAll(e, path)))

\* the elements below kids with that tag, in document order
RECURSIVE Descendants(_, _)
Descendants(kids, name) ==
    IF kids = <<>>
    THEN <<>>
    ELSE (IF TagIs(Head(kids), name) THEN <<Head(kids)>> ELSE <<>>)
         \o Descendants(Head(kids).kids, name)
         \o Descendants(Tail(kids), name)

\* root.findall('.//Disorder')
FindDisorders(root) == Descendants(root.kids, "Disorder")

\* sep.join(items)
RECURSIVE Join(_, _)
Join(items, sep) ==
    IF items = <<>> THEN ""
    ELSE IF Len(items) = 1 THEN items[1]
    ELSE items[1] \o sep \o Join(Tail(items), sep)

\* the stripped text of the elements that have text
TextsOf(elems) ==
    LET Test(e) == HasText(e)
        sel == SelectSeq(elems, Test)
    IN [i \in 1..Len(sel) |-> StripText(sel[i].text[1])]

\* x.text.strip() if x is not None and x.text else '', x = elem.find(path)
FindStripped(e, path) ==
    IF ETFind(e, path) # None /\ HasText(ETFind(e, path)[1])
    THEN StripText(ETFind(e, path)[1].text[1])
    ELSE ""

\* dict.update
Update(a, b) ==
    [k \in DOMAIN a \cup DOMAIN b |-> IF k \in DOMAIN b THEN b[k] ELSE a[k]]

-----------------------------------------------------------------------------
(* parse_orpha_xml1.py: the single-entity flattener *)

\* get_child_text(parent, tag, lang): the first child with that tag (lang =
\* None), or the first whose lang attribute equals lang; '' when there is none
GetChildText(parent, tag, lang) ==
    LET cs == ETFindAll(parent, <<tag>>)
        hits == {i \in 1..Len(cs) : lang = None \/ <<"lang", lang[1]>> \in cs[i].attrs}
    IN IF hits = {}
       THEN ""
       ELSE TextOrEmpty(cs[CHOOSE i \in hits : \A j \in hits : i <= j])

\* the Source:Reference pairs of the external references that have either
ExtPairs(refs) ==
    LET Test(r) == GetChildText(r, "Source", None) # "" \/ GetChildText(r, "Reference", None) # ""
        sel == SelectSeq(refs, Test)
    IN [i \in 1..Len(sel) |->
          GetChildText(sel[i], "Source", None) \o ":" \o GetChildText(sel[i], "Reference", None)]

\* the Definition chain: TextSection Contents when it has text, else
\* TextAuto/Info when it has text, else ''
Definition1(elem) ==
    LET si == ETFind(elem, <<"SummaryInformationList", "SummaryInformation">>)
        ts == ETFind(si[1], <<"TextSectionList", "TextSection", "Contents">>)
    IN IF si = None THEN ""
       ELSE IF ts # None /\ HasText(ts[1]) THEN StripText(ts[1].text[1])
       ELSE FindStripped(si[1], <<"TextAuto", "Info">>)

\* parse_disorder of parse_orpha_xml1
ParseDisorder1(elem) ==
    [id |-> GetAttr(elem, "id", ""),
     OrphaCode |-> GetChildText(elem, "OrphaCode", None),
     ExpertLink |-> GetChildText(elem, "ExpertLink", Some("en")),
     Name |-> GetChildText(elem, "Name", Some("en")),
     Synonyms |-> Join(TextsOf(ETFindAll(elem, <<"SynonymList", "Synonym">>)), "; "),
     DisorderType |-> FindStripped(elem, <<"DisorderType", "Name">>),
     DisorderGroup |-> FindStripped(elem, <<"DisorderGroup", "Name">>),
     ExternalReferences |->
        Join(ExtPairs(ETFindAll(elem, <<"ExternalReferenceList", "ExternalReference">>)), "; "),
     Definition |-> Definition1(elem)]

Fieldnames1 ==
    <<"id", "OrphaCode", "Name", "ExpertLink", "Synonyms", "DisorderType",
      "DisorderGroup", "ExternalReferences", "Definition">>

\* an entity without an OrphaCode child is left out
Rows1SkipUncoded(elem) ==
    IF ETFind(elem, <<"OrphaCode">>) = None THEN <<>> ELSE <<ParseDisorder1(elem)>>

\* for d in disorders: writer.writerow(parse_disorder(d))
Rows1(elem) == <<ParseDisorder1(elem)>>


-----------------------------------------------------------------------------
(* parse_orpha_xml6.py: the gene-association flattener *)

\* the row key of an external reference: the source name alone
RefKeyBare(source) == source

\* gene[f'Ref_{source}'] = ref
RefKey(source) == "Ref_" \o source

\* parse_external_references: source -> reference of the references that have
\* both, a later reference replacing an earlier one of the same source
ParseExternalReferences(gene_elem) ==
    LET refs == ETFindAll(gene_elem, <<"ExternalReferenceList", "ExternalReference">>)
        good == {i \in 1..Len(refs) :
                    FindText(refs[i], "Source") # "" /\ FindText(refs[i], "Reference") # ""}
        sources == {FindText(refs[i], "Source") : i \in good}
    IN [src \in sources |->
          FindText(refs[CHOOSE i \in good :
                            /\ FindText(refs[i], "Source") = src
                            /\ \A j \in good : FindText(refs[j], "Source") = src => j <= i],
                   "Reference")]

\* parse_gene: None for no element, else the gene's fields
ParseGene(gene_elem) ==
    IF gene_elem = None
    THEN None
    ELSE LET g == gene_elem[1]
             refs == ParseExternalReferences(g)
             locus == ETFind(g, <<"LocusList", "Locus">>)
             basic == [GeneID |-> GetAttr(g, "id", ""),
                       GeneName |-> FindTextLang(g, "Name", "en"),
                       GeneSymbol |-> FindText(g, "Symbol"),
                       GeneSynonyms |->
                           Join(TextsOf(ETFindAll(g, <<"SynonymList", "Synonym">>)), "; "),
                       GeneType |-> FindStripped(g, <<"GeneType", "Name">>)]
             withRefs == Update(basic, [k \in {RefKey(src) : src \in DOMAIN refs} |->
                                          refs[CHOOSE src \in DOMAIN refs : RefKey(src) = k]])
         IN Some(IF locus = None
                 THEN withRefs
                 ELSE Update(withRefs, [GeneLocus |-> FindText(locus[1], "GeneLocus"),
                                        LocusKey |-> FindText(locus[1], "LocusKey")]))

\* disorder_info of parse_disorder
DisorderInfo6(d) ==
    [DisorderID |-> GetAttr(d, "id", ""),
     OrphaCode |-> FindText(d, "OrphaCode"),
     DisorderName |-> FindTextLang(d, "Name", "en"),
     ExpertLink |-> FindTextLang(d, "ExpertLink", "en"),
     DisorderType |-> FindStripped(d, <<"DisorderType", "Name">>),
     DisorderGroup |-> FindStripped(d, <<"DisorderGroup", "Name">>)]

\* the row of one association, None when it has no gene
AssociationRow6(d, assoc) ==
    LET row == Update(DisorderInfo6(d),
                      [SourceOfValidation |-> FindText(assoc, "SourceOfValidation"),
                       AssociationType |->
                           FindStripped(assoc, <<"DisorderGeneAssociationType", "Name">>),
                       AssociationStatus |->
                           FindStripped(assoc, <<"DisorderGeneAssociationStatus", "Name">>)])
        gene == ParseGene(ETFind(assoc, <<"Gene">>))
    IN IF gene # None /\ DOMAIN gene[1] # {} THEN Some(Update(row, gene[1])) ELSE None

RECURSIVE AssociationRows6(_, _)
AssociationRows6(d, assocs) ==
    IF assocs = <<>> THEN <<>>
    ELSE AssociationRow6(d, Head(assocs)) \o AssociationRows6(d, Tail(assocs))

\* parse_disorder of parse_orpha_xml6: the rows of one entity
ParseDisorder6(d) ==
    AssociationRows6(d, ETFindAll(d, <<"DisorderGeneAssociationList", "DisorderGeneAssociation">>))

Fieldnames6 ==
    <<"DisorderID", "OrphaCode", "DisorderName", "ExpertLink", "DisorderType",
      "DisorderGroup", "SourceOfValidation", "AssociationType", "AssociationStatus",
      "GeneID", "GeneName", "GeneSymbol", "GeneSynonyms", "GeneType", "GeneLocus",
      "LocusKey", "Ref_HGNC", "Ref_Ensembl", "Ref_OMIM", "Ref_SwissProt",
      "Ref_Genatlas", "Ref_ClinVar", "Ref_Reactome">>

\* the row written with a column for every key it has, listed or not
WriteRow6Open(row) ==
    [f \in {Fieldnames6[i] : i \in 1..Len(Fieldnames6)} \cup DOMAIN row |->
        IF f \in DOMAIN row THEN row[f] ELSE ""]

\* DictWriter(fieldnames, extrasaction='ignore').writerow(row)
WriteRow6(row) ==
    [f \in {Fieldnames6[i] : i \in 1..Len(Fieldnames6)} |->
        IF f \in DOMAIN row THEN row[f] ELSE ""]

Rows6(d) == [i \in 1..Len(ParseDisorder6(d)) |-> WriteRow6(ParseDisorder6(d)[i])]

-----------------------------------------------------------------------------
(* parse_orpha_xml7.py: the disorder-association flattener *)

\* int(s) for the count attributes of the input documents: None for ValueError
ParseInt(s) ==
    CASE s = "0" -> Some(0)
      [] s = "1" -> Some(1)
      [] s = "2" -> Some(2)
      [] s = " 2" -> Some(2)
      [] OTHER -> None

\* parse_target_disorder
ParseTargetDisorder(target) ==
    IF target = None
    THEN <<>>
    ELSE [TargetId |-> GetAttr(target[1], "id", ""),
          TargetOrphaCode |-> FindText(target[1], "OrphaCode"),
          TargetName |-> FindTextLang(target[1], "Name", "en")]

\* parse_disorder_association
ParseDisorderAssociation(association, disorder_id) ==
    LET root == ETFind(association, <<"RootDisorder">>)
    IN Update([DisorderId |-> disorder_id,
               RootId |-> IF root # None THEN GetAttr(root[1], "id", "") ELSE "",
               IsCycle |-> IF root # None THEN GetAttr(root[1], "cycle", "false") ELSE "false",
               AssociationType |->
                   FindStripped(association, <<"DisorderDisorderAssociationType", "Name">>)],
              ParseTargetDisorder(ETFind(association, <<"TargetDisorder">>)))

\* int(assoc_list.get('count', '0')) raises
CountFails7(d) ==
    LET assoc_list == ETFind(d, <<"DisorderDisorderAssociationList">>)
    IN assoc_list # None /\ ParseInt(GetAttr(assoc_list[1], "count", "0")) = None

\* the rows of one entity, an association without a TargetDisorder left out
ParseDisorder7Targeted(d) ==
    LET assoc_list == ETFind(d, <<"DisorderDisorderAssociationList">>)
        assocs == SelectSeq(ETFindAll(assoc_list[1], <<"DisorderDisorderAssociation">>),
                            LAMBDA a : ETFind(a, <<"TargetDisorder">>) # None)
    IN IF assoc_list = None
       THEN <<>>
       ELSE [i \in 1..Len(assocs) |->
               Update([OrphaCode |-> FindText(d, "OrphaCode"),
                       DisorderName |-> FindTextLang(d, "Name", "en"),
                       ExpertLink |-> FindTextLang(d, "ExpertLink", "en"),
                       TotalAssociations |->
                           ParseInt(GetAttr(assoc_list[1], "count", "0"))[1]],
                      ParseDisorderAssociation(assocs[i], GetAttr(d, "id", "")))]

\* parse_disorder of parse_orpha_xml7: the rows of one entity
ParseDisorder7(d) ==
    LET assoc_list == ETFind(d, <<"DisorderDisorderAssociationList">>)
        assocs == ETFindAll(assoc_list[1], <<"DisorderDisorderAssociation">>)
    IN IF assoc_list = None
       THEN <<>>
       ELSE [i \in 1..Len(assocs) |->
               Update([OrphaCode |-> FindText(d, "OrphaCode"),
                       DisorderName |-> FindTextLang(d, "Name", "en"),
                       ExpertLink |-> FindTextLang(d, "ExpertLink", "en"),
                       TotalAssociations |->
                           ParseInt(GetAttr(assoc_list[1], "count", "0"))[1]],
                      ParseDisorderAssociation(assocs[i], GetAttr(d, "id", "")))]

Fieldnames7 ==
    <<"OrphaCode", "DisorderName", "ExpertLink", "TotalAssociations", "DisorderId",
      "RootId", "IsCycle", "TargetId", "TargetOrphaCode", "TargetName", "AssociationType">>

\* DictWriter(fieldnames).writerow(row): a missing key is written as ''
WriteRow7(row) ==
    [f \in {Fieldnames7[i] : i \in 1..Len(Fieldnames7)} |->
        IF f \in DOMAIN row THEN row[f] ELSE ""]

Rows7(d) == [i \in 1..Len(ParseDisorder7(d)) |-> WriteRow7(ParseDisorder7(d)[i])]

-----------------------------------------------------------------------------
(* convert of parse_orpha_xml1.py, parse_orpha_xml6.py, parse_orpha_xml7.py *)

Kinds == {"xml1", "xml6", "xml7"}

Fieldnames(kind) ==
    CASE kind = "xml1" -> Fieldnames1
      [] kind = "xml6" -> Fieldnames6
      [] kind = "xml7" -> Fieldnames7

\* the rows written for one entity of disorders
RowsOf(kind, d) ==
    CASE kind = "xml1" -> Rows1(d)
      [] kind = "xml6" -> Rows6(d)
      [] kind = "xml7" -> Rows7(d)

\* producing the rows of the entity raises
RowsFail(kind, d) == kind = "xml7" /\ CountFails7(d)

\* the test for an empty entity list left out
NoDisordersUnchecked(found) == FALSE

\* if not disorders
NoDisorders(found) == found = <<>>

\* The input documents: entities with and without their optional children.
Leaf(name, core) == Elem("", name, {}, Text("", core, ""), <<>>)
Node(name, kids) == Elem("", name, {}, None, kids)

DisorderFull ==
    Elem("", "Disorder", {<<"id", "1">>}, None,
      << Leaf("OrphaCode", "58"),
         Elem("", "ExpertLink", {<<"lang", "en">>}, Text("", "L", ""), <<>>),
         Elem("", "Name", {<<"lang", "fr">>}, Text("", "F", ""), <<>>),
         Elem("", "Name", {<<"lang", "en">>}, Text(" ", "A", " "), <<>>),
         Node("SynonymList",
              <<Leaf("Synonym", "S1"), Node("Synonym", <<>>), Leaf("Synonym", "S2")>>),
         Node("DisorderType", <<Leaf("Name", "T")>>),
         Node("ExternalReferenceList",
              <<Node("ExternalReference", <<Leaf("Source", "OMIM"), Leaf("Reference", "1")>>),
                Node("ExternalReference", <<Leaf("Source", "ICD")>>)>>),
         Node("SummaryInformationList",
              <<Node("SummaryInformation",
                     <<Node("TextSectionList",
                            <<Node("TextSection", <<Leaf("Contents", "C")>>)>>)>>)>>) >>)

DisorderBare == Elem("", "Disorder", {}, None, <<>>)

DisorderGenes ==
    Elem("", "Disorder", {<<"id", "2">>}, None,
      << Leaf("OrphaCode", "7"),
         Elem("", "Name", {<<"lang", "en">>}, Text("", "B", ""), <<>>),
         Node("DisorderGroup", <<Leaf("Name", "G")>>),
         Node("DisorderGeneAssociationList",
              <<Node("DisorderGeneAssociation",
                     <<Leaf("SourceOfValidation", "P"),
                       Elem("", "Gene", {<<"id", "g1">>}, None,
                            <<Elem("", "Name", {<<"lang", "en">>}, Text("", "N1", ""), <<>>),
                              Leaf("Symbol", "K"),
                              Node("ExternalReferenceList",
                                   <<Node("ExternalReference",
                                          <<Leaf("Source", "HGNC"), Leaf("Reference", "5")>>),
                                     Node("ExternalReference",
                                          <<Leaf("Source", "OrphaCode"), Leaf("Reference", "9")>>),
                                     Node("ExternalReference", <<Leaf("Source", "OMIM")>>)>>),
                              Node("LocusList",
                                   <<Node("Locus", <<Leaf("GeneLocus", "1p"),
                                                     Leaf("LocusKey", "1")>>)>>)>>),
                       Node("DisorderGeneAssociationType", <<Leaf("Name", "AT")>>)>>),
                Node("DisorderGeneAssociation",
                     <<Node("DisorderGeneAssociationStatus", <<Leaf("Name", "AS")>>)>>),
                Node("DisorderGeneAssociation",
                     <<Elem("", "Gene", {<<"id", "g3">>}, None, <<>>)>>)>>) >>)

DisorderAssoc ==
    Elem("", "Disorder", {<<"id", "3">>}, None,
      << Leaf("OrphaCode", "3"),
         Elem("", "DisorderDisorderAssociationList", {<<"count", "2">>}, None,
              <<Node("DisorderDisorderAssociation",
                     <<Elem("", "TargetDisorder", {<<"id", "4">>}, None,
                            <<Leaf("OrphaCode", "44")>>),
                       Elem("", "RootDisorder", {<<"id", "3">>, <<"cycle", "true">>}, None, <<>>),
                       Node("DisorderDisorderAssociationType", <<Leaf("Name", "PT")>>)>>),
                Node("DisorderDisorderAssociation", <<>>)>>) >>)

DisorderBadCount ==
    Elem("", "Disorder", {<<"id", "5">>}, None,
      << Elem("", "DisorderDisorderAssociationList", {<<"count", "x">>}, None,
              <<Node("DisorderDisorderAssociation", <<>>)>>) >>)

\* an association list without a count attribute, its association without
\* target and root
DisorderNoCount ==
    Elem("", "Disorder", {<<"id", "6">>}, None,
      << Leaf("OrphaCode", "6"),
         Elem("", "Name", {<<"lang", "en">>}, Text("", "N", ""), <<>>),
         Node("DisorderDisorderAssociationList",
              <<Node("DisorderDisorderAssociation",
                     <<Node("DisorderDisorderAssociationType", <<Leaf("Name", "Q")>>)>>)>>) >>)

\* an association list without associations
DisorderEmptyList ==
    Elem("", "Disorder", {<<"id", "7">>}, None,
      << Leaf("OrphaCode", "7"),
         Elem("", "DisorderDisorderAssociationList", {<<"count", "0">>}, None, <<>>) >>)

\* a summary information with the auto-generated info alone
DisorderInfoOnly ==
    Elem("", "Disorder", {<<"id", "8">>}, None,
      << Leaf("OrphaCode", "8"),
         Node("SummaryInformationList",
              <<Node("SummaryInformation",
                     <<Node("TextAuto", <<Leaf("Info", "I")>>)>>)>>) >>)

\* a summary information whose Contents holds white space alone, before the
\* auto-generated info
DisorderBlankContents ==
    Elem("", "Disorder", {<<"id", "9">>}, None,
      << Leaf("OrphaCode", "9"),
         Node("SummaryInformationList",
              <<Node("SummaryInformation",
                     <<Node("TextSectionList",
                            <<Node("TextSection",
                                   <<Elem("", "Contents", {}, Text(" ", "", ""), <<>>)>>)>>),
                       Node("TextAuto", <<Leaf("Info", "J")>>)>>)>>) >>)

Entities ==
    {DisorderFull, DisorderBare, DisorderGenes, DisorderAssoc, DisorderBadCount,
     DisorderNoCount, DisorderEmptyList, DisorderInfoOnly, DisorderBlankContents}

EntityLists == UNION {[1..n -> Entities] : n \in 0..MaxDisorders}

\* the entities in a DisorderList under the root, or directly under the root
Docs ==
    {Node("JDBOR", <<Leaf("Availability", "x"), Node("DisorderList", es)>>) : es \in EntityLists}
    \cup {Node("JDBOR", es) : es \in EntityLists}

XmlInit ==
    /\ xkind \in Kinds
    /\ doc \in Docs
    /\ file0 \in {None, Some(<< <<"stale">> >>)}
    /\ out_file = file0
    /\ disorders = <<>>
    /\ xi = 1
    /\ xpc = "start"
    /\ logs = <<>>
    /\ fault = "none"
    /\ counts = [total |-> 0, valid |-> 0]
    /\ run = 1
    /\ first_out = None
    /\ cleared = {}
    /\ handles = {}
    /\ OboIdle
    /\ SynIdle
    /\ NavIdle

\* the output path opened in append mode: what it held stays before the lines
OpenAppend(old, lines) == IF old = None THEN Some(lines) ELSE Some(old[1] \o lines)

\* csv_path.open('w') and the first lines written: what the path held is gone
OpenWrite(old, lines) == Some(lines)

\* logger.info(f'Reading {path}') of parse_orpha_xml6, parse_orpha_xml7 and
\* parse_phenotype_hpoa
ReadingLog(kind) == IF kind \in {"xml6", "xml7", "hpoa"} THEN <<"info">> ELSE <<>>

\* tree = ET.parse(xml_path); disorders = root.findall('.//Disorder'); the
\* output is opened for writing and the header written
ConvertOpen ==
    /\ xpc = "start"
    /\ xkind \in Kinds
    /\ ~NoDisorders(FindDisorders(doc))
    /\ disorders' = FindDisorders(doc)
    /\ out_file' = OpenWrite(out_file, <<Fieldnames(xkind)>>)
    /\ xi' = 1
    /\ xpc' = "writing"
    /\ logs' = logs \o ReadingLog(xkind)
    /\ handles' = {"output"}
    /\ UNCHANGED <<xkind, doc, file0, fault, counts, run, first_out, oboVars, synVars, navVars,
                   cleared>>

\* if not disorders: logger.error(msg); raise CustomException, which the except
\* clause logs and raises again
RaiseNoDisorders ==
    /\ xpc = "start"
    /\ xkind \in Kinds
    /\ NoDisorders(FindDisorders(doc))
    /\ xpc' = "raised"
    /\ logs' = logs \o ReadingLog(xkind) \o <<"error", "error">>
    /\ UNCHANGED <<xkind, doc, file0, out_file, disorders, xi, fault, counts, run, first_out,
                   oboVars, synVars, navVars,
                   cleared, handles>>

\* one iteration of `for disorder in disorders`: its rows are written
WriteDisorder ==
    /\ xpc = "writing"
    /\ xi <= Len(disorders)
    /\ ~RowsFail(xkind, disorders[xi])
    /\ out_file' = Some(out_file[1] \o RowsOf(xkind, disorders[xi]))
    /\ xi' = xi + 1
    /\ UNCHANGED <<xkind, doc, file0, disorders, xpc, logs, fault, counts, run, first_out,
                   oboVars, synVars, navVars,
                   cleared, handles>>

\* parse_disorder raises: the file is closed as it is, the except clause logs
\* and raises CustomException
RaiseInRows ==
    /\ xpc = "writing"
    /\ xi <= Len(disorders)
    /\ RowsFail(xkind, disorders[xi])
    /\ xpc' = "raised"
    /\ logs' = logs \o <<"error">>
    /\ handles' = {}
    /\ UNCHANGED <<xkind, doc, file0, out_file, disorders, xi, fault, counts, run, first_out,
                   oboVars, synVars, navVars,
                   cleared>>

\* logger.info(...); return 0
ConvertReturn ==
    /\ xpc = "writing"
    /\ xi > Len(disorders)
    /\ xpc' = "returned"
    /\ logs' = logs \o <<"info">>
    /\ handles' = {}
    /\ UNCHANGED <<xkind, doc, file0, out_file, disorders, xi, fault, counts, run, first_out,
                   oboVars, synVars, navVars,
                   cleared>>

XmlNext == ConvertOpen \/ RaiseNoDisorders \/ WriteDisorder \/ RaiseInRows \/ ConvertReturn

SpecXml == XmlInit /\ [][XmlNext]_vars


-----------------------------------------------------------------------------
(* parse_orpha_xml4.py: the streaming link parser *)

\* The term identifiers are sequences of one-character strings, so that
\* replace and upper are computed.
LowerCase == <<"a", "b", "c", "d", "e", "f", "g", "h", "i", "j", "k", "l", "m",
               "n", "o", "p", "q", "r", "s", "t", "u", "v", "w", "x", "y", "z">>
UpperCase == <<"A", "B", "C", "D", "E", "F", "G", "H", "I", "J", "K", "L", "M",
               "N", "O", "P", "Q", "R", "S", "T", "U", "V", "W", "X", "Y", "Z">>

\* the identifier left as it is
NormalizeHpVerbatim(hp) == hp

\* normalize_hp: hp.replace("_", ":").upper()
NormalizeHp(hp) ==
    [i \in 1..Len(hp) |->
        IF hp[i] = "_" THEN ":"
        ELSE IF \E k \in 1..Len(LowerCase) : LowerCase[k] = hp[i]
        THEN UpperCase[CHOOSE k \in 1..Len(LowerCase) : LowerCase[k] = hp[i]]
        ELSE hp[i]]

\* a or b, of two texts
OrText(a, b) == IF Len(a) > 0 THEN a ELSE b

\* orpha of convert: '' stands for None too, both are false in `if orpha`
OrphaOf(elem) ==
    LET dis == FindFirst(elem, "Disorder")
    IN IF dis = None THEN ""
       ELSE OrText(FindText(dis[1], "OrphaNumber"), FindText(dis[1], "OrphaCode"))

\* hp_id of convert: <<>> stands for None and ''
HpIdOf(elem) ==
    LET hpo_block == FindFirst(elem, "HPO")
    IN IF hpo_block = None THEN <<>>
       ELSE OrText(FindText(hpo_block[1], "HPOId"),
            OrText(FindText(hpo_block[1], "HPO_ID"),
            OrText(FindText(hpo_block[1], "Id"), FindText(hpo_block[1], "ID"))))

\* freq or "" of convert; `a or b` of two elements takes b when a is None or
\* has no children (an Element without children is false)
FrequencyOf(elem) ==
    LET first == FindFirst(elem, "Frequency")
        freq_block == IF first # None /\ first[1].kids # <<>>
                      THEN first
                      ELSE FindFirst(elem, "HPOFrequency")
    IN IF freq_block = None THEN ""
       ELSE OrText(FindText(freq_block[1], "Name"), TextOrEmpty(freq_block[1]))

\* the elements of the document in the order of their end events
RECURSIVE EndEvents(_)
EndEvents(kids) ==
    IF kids = <<>> THEN <<>>
    ELSE EndEvents(Head(kids).kids) \o <<Head(kids)>> \o EndEvents(Tail(kids))

\* the row is written for an association with a source identifier alone
EmitsRowOrphaOnly(elem) ==
    Local(elem) = "DisorderHPOTermAssociation" /\ Len(OrphaOf(elem)) > 0

\* local(elem.tag) == "DisorderHPOTermAssociation" and orpha and hp_id
EmitsRow(elem) ==
    /\ Local(elem) = "DisorderHPOTermAssociation"
    /\ Len(OrphaOf(elem)) > 0
    /\ Len(HpIdOf(elem)) > 0

\* the row of out.writerow
LinkRow(elem) ==
    [start_orpha_id |-> "ORPHA:" \o OrphaOf(elem),
     end_hp_id |-> NormalizeHp(HpIdOf(elem)),
     frequency |-> FrequencyOf(elem)]

\* fieldnames of the conversions that write as they read
StreamFieldnames(kind) ==
    CASE kind = "xml4" -> <<"start_orpha_id", "end_hp_id", "frequency">>
      [] kind = "hpoa" ->
           <<"database_id", "disease_name", "qualifier", "hpo_id", "reference", "evidence",
             "onset", "frequency", "sex", "modifier", "aspect", "biocuration">>
      [] kind = "obo" ->
           <<"id", "name", "definition", "comment", "synonyms", "synonym_types", "xrefs",
             "alt_ids", "is_a", "created_date", "obsolete">>

\* The input documents: associations with and without the two identifiers.
LinkFull ==
    Node("DisorderHPOTermAssociation",
         <<Node("Disorder", <<Leaf("OrphaNumber", "166024")>>),
           Node("HPO", <<Elem("", "HPOId", {},
                              Text(<<>>, <<"H","P","_","0","0","0","1","2","5","0">>, <<>>),
                              <<>>)>>),
           Node("HPOFrequency", <<Leaf("Name", "Frequent")>>)>>)

LinkCodeOnly ==
    Node("DisorderHPOTermAssociation",
         <<Node("Disorder", <<Leaf("OrphaCode", "58")>>),
           Node("HPO", <<Elem("", "HPO_ID", {},
                              Text(<<" ">>, <<"h","p","_","2">>, <<" ">>), <<>>)>>),
           Leaf("Frequency", "Rare")>>)

LinkNoDisorder ==
    Node("DisorderHPOTermAssociation",
         <<Node("HPO", <<Elem("", "Id", {}, Text(<<>>, <<"H","P","_","3">>, <<>>), <<>>)>>)>>)

LinkNoTerm ==
    Node("DisorderHPOTermAssociation",
         <<Node("Disorder", <<Leaf("OrphaCode", "7")>>), Node("HPO", <<>>)>>)

LinkBlankNumber ==
    Node("DisorderHPOTermAssociation",
         <<Node("Disorder", <<Elem("", "OrphaNumber", {}, Text(" ", "", ""), <<>>),
                              Leaf("OrphaCode", "9")>>),
           Node("HPO", <<Elem("", "ID", {}, Text(<<>>, <<"H","p","_","4">>, <<>>), <<>>)>>),
           Node("Frequency", <<Leaf("Name", "F")>>)>>)

LinkAssociations == {LinkFull, LinkCodeOnly, LinkNoDisorder, LinkNoTerm, LinkBlankNumber}

\* the document with every tag in the namespace ns
RECURSIVE WithNs(_, _)
WithNs(e, ns) ==
    [ns |-> ns, name |-> e.name, attrs |-> e.attrs, text |-> e.text,
     kids |-> [i \in 1..Len(e.kids) |-> WithNs(e.kids[i], ns)]]

\* csv_path.open("w"), out.writeheader(), ET.iterparse(xml_path, events=("end",)):
\* the output handle is held by the DictWriter alone, the input is opened by
\* iterparse
LinkOpen ==
    /\ xpc = "start"
    /\ xkind = "xml4"
    /\ out_file' = OpenWrite(out_file, <<StreamFieldnames(xkind)>>)
    /\ disorders' = EndEvents(<<doc>>)
    /\ xi' = 1
    /\ xpc' = "linking"
    /\ handles' = {"input", "output"}
    /\ UNCHANGED <<xkind, doc, file0, logs, fault, counts, run, first_out, oboVars, synVars, navVars,
                   cleared>>

\* one element of the pass, with both identifiers: out.writerow, elem.clear()
LinkWrite ==
    /\ xpc = "linking"
    /\ xi <= Len(disorders)
    /\ EmitsRow(disorders[xi])
    /\ out_file' = Some(Append(out_file[1], LinkRow(disorders[xi])))
    /\ xi' = xi + 1
    /\ cleared' = cleared \cup {xi}
    /\ UNCHANGED <<xkind, doc, file0, disorders, xpc, logs, fault, counts, run, first_out,
                   oboVars, synVars, navVars,
                   handles>>

\* one element of the pass that gives no row: another tag, or an association
\* without one of the identifiers; elem.clear() (line 49) is in the body of the
\* tag test of line 25, so that an element of another tag is left as it is
LinkSkip ==
    /\ xpc = "linking"
    /\ xi <= Len(disorders)
    /\ ~EmitsRow(disorders[xi])
    /\ xi' = xi + 1
    /\ cleared' = IF Local(disorders[xi]) = "DisorderHPOTermAssociation"
                   THEN cleared \cup {xi} ELSE cleared
    /\ UNCHANGED <<xkind, doc, file0, out_file, disorders, xpc, logs, fault, counts, run,
                   first_out, oboVars, synVars, navVars,
                   handles>>

\* logger.info(...); return 0: iterparse has closed the input at the end of the
\* pass, the output handle is closed when the frame of convert is given up
LinkReturn ==
    /\ xpc = "linking"
    /\ xi > Len(disorders)
    /\ fault = "none"
    /\ xpc' = "returned"
    /\ logs' = logs \o <<"info">>
    /\ handles' = {}
    /\ UNCHANGED <<xkind, doc, file0, out_file, disorders, xi, fault, counts, run, first_out,
                   oboVars, synVars, navVars,
                   cleared>>

\* the document ends before it is complete: iterparse raises and closes the
\* input, the except clause logs and raises CustomException; no statement
\* closes the output handle, which the frame kept by the exception holds
LinkRaise ==
    /\ xpc = "linking"
    /\ xi > Len(disorders)
    /\ fault = "malformed"
    /\ xpc' = "raised"
    /\ logs' = logs \o <<"error">>
    /\ handles' = {"output"}
    /\ UNCHANGED <<xkind, doc, file0, out_file, disorders, xi, fault, counts, run, first_out,
                   oboVars, synVars, navVars,
                   cleared>>

-----------------------------------------------------------------------------
(* parse_phenotype_hpoa.py: the annotation reader *)

\* s.split(c)
RECURSIVE SplitOn(_, _)
SplitOn(s, c) ==
    IF \A i \in 1..Len(s) : s[i] # c
    THEN <<s>>
    ELSE LET i == CHOOSE i \in 1..Len(s) : s[i] = c /\ \A j \in 1..(i - 1) : s[j] # c
         IN <<SubSeq(s, 1, i - 1)>> \o SplitOn(SubSeq(s, i + 1, Len(s)), c)

\* parse_hpoa_line: the twelve names bound to the fields of line.strip(), None
\* when the unpacking raises ValueError
ParseHpoaLine(line) ==
    LET fields == SplitOn(Strip(line), "\t")
        names == StreamFieldnames("hpoa")
    IN IF Len(fields) = Len(names)
       THEN Some([k \in {names[i] : i \in 1..Len(names)} |->
                     fields[CHOOSE i \in 1..Len(names) : names[i] = k]])
       ELSE None

\* line.startswith('#')
IsComment(line) == line # <<>> /\ line[1] = "#"

\* metadata[key.strip()] = value.strip().strip('"'), metadata the <<key, value>>
\* pairs in the order of the dictionary
PutMetadata(metadata, line) ==
    LET rest == Tail(line)
        parts == SplitOn(rest, ":")
        key == Strip(parts[1])
        raw == Strip(SubSeq(rest, Len(parts[1]) + 2, Len(rest)))
        inner == {i \in 1..Len(raw) : raw[i] # Quote}
        value == IF inner = {} THEN <<>>
                 ELSE SubSeq(raw, CHOOSE i \in inner : \A j \in inner : i <= j,
                                  CHOOSE i \in inner : \A j \in inner : j <= i)
    IN IF Len(parts) = 1 THEN metadata
       ELSE IF \E i \in 1..Len(metadata) : metadata[i][1] = key
       THEN [i \in 1..Len(metadata) |->
                IF metadata[i][1] = key THEN <<key, value>> ELSE metadata[i]]
       ELSE Append(metadata, <<key, value>>)

\* parse_metadata
RECURSIVE ParseMetadata(_)
ParseMetadata(lines) ==
    IF lines = <<>> \/ ~IsComment(Head(lines)) THEN <<>>
    ELSE LET n == Len(lines)
             upto == IF \A i \in 1..n : IsComment(lines[i]) THEN n
                     ELSE (CHOOSE i \in 1..n : ~IsComment(lines[i])
                                                /\ \A j \in 1..(i - 1) : IsComment(lines[j])) - 1
         IN IF upto = 1 THEN PutMetadata(<<>>, lines[1])
            ELSE PutMetadata(ParseMetadata(SubSeq(lines, 1, upto - 1)), lines[upto])

\* the index of the header line: the first line that is no comment, the first
\* line of all when every line is a comment (data_start stays 0)
HeaderIndex(lines) ==
    IF \A i \in 1..Len(lines) : IsComment(lines[i]) THEN 1
    ELSE CHOOSE i \in 1..Len(lines) : ~IsComment(lines[i])
                                      /\ \A j \in 1..(i - 1) : IsComment(lines[j])

\* The lines of the input files (without their newline, which strip removes).
HpoaLines ==
    { <<"#","v",":"," ","\"","1","\"">>,
      <<"h">>,
      <<"a","\t","b","\t","c","\t","d","\t","e","\t","f","\t","g","\t","h","\t","i","\t","j","\t","k","\t","l">>,
      <<"a","\t","b","\t","c","\t","d","\t","e","\t","f","\t","g","\t","h","\t","i","\t","j","\t","k">>,
      <<"a","\t","b","\t","c","\t","d","\t","e","\t","f","\t","g","\t","h","\t","i","\t","j","\t","k","\t","l","\t","m">>,
      <<"a","\t","b","\t","c","\t","d","\t","e","\t","f","\t","g","\t","h","\t","i","\t","j","\t","k","\t","l","\t">>,
      <<"a","\t","b","\t","c","\t","d","\t","e","\t","f","\t","g","\t","h","\t","i","\t","j","\t","k","\t">>,
      <<"#","a","\t","b","\t","c","\t","d","\t","e","\t","f","\t","g","\t","h","\t","i","\t","j","\t","k","\t","l">> }

\* lines = f.readlines(); metadata, header; the output is opened, the metadata
\* written as comments, then the header
HpoaOpen ==
    /\ xpc = "start"
    /\ xkind = "hpoa"
    /\ doc # <<>>
    /\ out_file' = OpenWrite(out_file,
                       [i \in 1..Len(ParseMetadata(doc)) |->
                           <<"#", ParseMetadata(doc)[i][1], ParseMetadata(doc)[i][2]>>]
                       \o <<StreamFieldnames(xkind)>>)
    /\ disorders' = SubSeq(doc, HeaderIndex(doc) + 1, Len(doc))
    /\ xi' = 1
    /\ counts' = [total |-> 0, valid |-> 0]
    /\ logs' = logs \o <<"info">>
    /\ xpc' = "annotating"
    /\ handles' = {"output"}
    /\ UNCHANGED <<xkind, doc, file0, fault, run, first_out, oboVars, synVars, navVars,
                   cleared>>

\* header = lines[data_start] of a file without lines: IndexError, which the
\* except clause logs and raises as CustomException
HpoaRaiseEmpty ==
    /\ xpc = "start"
    /\ xkind = "hpoa"
    /\ doc = <<>>
    /\ logs' = logs \o <<"info", "error">>
    /\ xpc' = "raised"
    /\ UNCHANGED <<xkind, doc, file0, out_file, disorders, xi, fault, counts, run, first_out,
                   oboVars, synVars, navVars,
                   cleared, handles>>

\* one line of lines[data_start:] that parses: writer.writerow(row)
HpoaWrite ==
    /\ xpc = "annotating"
    /\ xi <= Len(disorders)
    /\ ParseHpoaLine(disorders[xi]) # None
    /\ out_file' = Some(Append(out_file[1], ParseHpoaLine(disorders[xi])[1]))
    /\ counts' = [total |-> counts.total + 1, valid |-> counts.valid + 1]
    /\ xi' = xi + 1
    /\ UNCHANGED <<xkind, doc, file0, disorders, xpc, logs, fault, run, first_out,
                   oboVars, synVars, navVars,
                   cleared, handles>>

\* one line of lines[data_start:] that does not: logger.warning, no row
HpoaSkip ==
    /\ xpc = "annotating"
    /\ xi <= Len(disorders)
    /\ ParseHpoaLine(disorders[xi]) = None
    /\ counts' = [counts EXCEPT !.total = counts.total + 1]
    /\ logs' = logs \o <<"warning">>
    /\ xi' = xi + 1
    /\ UNCHANGED <<xkind, doc, file0, out_file, disorders, xpc, fault, run, first_out,
                   oboVars, synVars, navVars,
                   cleared, handles>>

\* the two logger.info; return 0
HpoaReturn ==
    /\ xpc = "annotating"
    /\ xi > Len(disorders)
    /\ logs' = logs \o <<"info", "info">>
    /\ xpc' = "returned"
    /\ handles' = {}
    /\ UNCHANGED <<xkind, doc, file0, out_file, disorders, xi, fault, counts, run, first_out,
                   oboVars, synVars, navVars,
                   cleared>>

-----------------------------------------------------------------------------
(* parse_hpo_obo.py: convert *)

\* parse_obo_file over the whole of lines: the Terms yielded, with block the
\* current_block and out the Terms yielded before
RECURSIVE ParseOboFile(_, _, _)
ParseOboFile(lines, block, out) ==
    IF lines = <<>>
    THEN (IF block # <<>> THEN out \o Emit(block) ELSE out)
    ELSE LET line == Rstrip(Head(lines))
         IN IF line = TermMarker
            THEN ParseOboFile(Tail(lines), <<line>>,
                              IF block # <<>> THEN out \o Emit(block) ELSE out)
            ELSE IF line = <<>> /\ block # <<>>
            THEN ParseOboFile(Tail(lines), <<>>, out \o Emit(block))
            ELSE IF block # <<>> \/ Strip(line) # <<>>
            THEN ParseOboFile(Tail(lines), Append(block, line), out)
            ELSE ParseOboFile(Tail(lines), block, out)

\* the row of one Term with the synonym values as they stand in the synonyms cell
OboRowRawSynonyms(term) ==
    LET First(tag) == IF tag \in DOMAIN term THEN term[tag][1] ELSE <<>>
        All(tag) == IF tag \in DOMAIN term THEN term[tag] ELSE <<>>
        JoinTexts(items) == IF items = <<>> THEN <<>> ELSE Join(items, <<";", " ">>)
        syns == All(<<"s","y","n","o","n","y","m">>)
        details == [i \in 1..Len(syns) |-> ExtractSynonymDetails(syns[i])]
    IN [id |-> First(<<"i","d">>),
        name |-> First(<<"n","a","m","e">>),
        definition |-> First(<<"d","e","f">>),
        comment |-> First(<<"c","o","m","m","e","n","t">>),
        synonyms |-> JoinTexts(syns),
        synonym_types |->
            JoinTexts(SelectSeq([i \in 1..Len(details) |-> details[i][2]],
                                LAMBDA t : t # <<>>)),
        xrefs |-> JoinTexts(All(<<"x","r","e","f">>)),
        alt_ids |-> JoinTexts(All(<<"a","l","t","_","i","d">>)),
        is_a |-> JoinTexts(All(<<"i","s","_","a">>)),
        created_date |-> First(<<"c","r","e","a","t","i","o","n","_","d","a","t","e">>),
        obsolete |-> IF <<"i","s","_","o","b","s","o","l","e","t","e">> \in DOMAIN term THEN "true" ELSE "false"]

\* the row of one Term
OboRow(term) ==
    LET First(tag) == IF tag \in DOMAIN term THEN term[tag][1] ELSE <<>>
        All(tag) == IF tag \in DOMAIN term THEN term[tag] ELSE <<>>
        JoinTexts(items) == IF items = <<>> THEN <<>> ELSE Join(items, <<";", " ">>)
        syns == All(<<"s","y","n","o","n","y","m">>)
        details == [i \in 1..Len(syns) |-> ExtractSynonymDetails(syns[i])]
    IN [id |-> First(<<"i","d">>),
        name |-> First(<<"n","a","m","e">>),
        definition |-> First(<<"d","e","f">>),
        comment |-> First(<<"c","o","m","m","e","n","t">>),
        synonyms |-> JoinTexts([i \in 1..Len(details) |-> details[i][1]]),
        synonym_types |->
            JoinTexts(SelectSeq([i \in 1..Len(details) |-> details[i][2]],
                                LAMBDA t : t # <<>>)),
        xrefs |-> JoinTexts(All(<<"x","r","e","f">>)),
        alt_ids |-> JoinTexts(All(<<"a","l","t","_","i","d">>)),
        is_a |-> JoinTexts(All(<<"i","s","_","a">>)),
        created_date |-> First(<<"c","r","e","a","t","i","o","n","_","d","a","t","e">>),
        obsolete |-> IF <<"i","s","_","o","b","s","o","l","e","t","e">> \in DOMAIN term THEN "true" ELSE "false"]

\* The lines of the input files.
OboConvLines ==
    { TermMarker,
      <<>>,
      <<"i","d",":"," ","a">>,
      <<"n","a","m","e",":"," ","n">>,
      <<"s","y","n","o","n","y","m",":"," ","\"","s","\""," ","E"," ","[","]">>,
      <<"s","y","n","o","n","y","m",":"," ","x">> }

\* the output is opened and the header written; parse_obo_file reads the input
OboOpen ==
    /\ xpc = "start"
    /\ xkind = "obo"
    /\ out_file' = OpenWrite(out_file, <<StreamFieldnames(xkind)>>)
    /\ disorders' = ParseOboFile(doc, <<>>, <<>>)
    /\ xi' = 1
    /\ xpc' = "terms"
    /\ handles' = {"input", "output"}
    /\ UNCHANGED <<xkind, doc, file0, logs, fault, counts, run, first_out, oboVars, synVars, navVars,
                   cleared>>

\* one Term with an id: writer.writerow(row)
OboTermWrite ==
    /\ xpc = "terms"
    /\ xi <= Len(disorders)
    /\ <<"i","d">> \in DOMAIN disorders[xi]
    /\ out_file' = Some(Append(out_file[1], OboRow(disorders[xi])))
    /\ xi' = xi + 1
    /\ UNCHANGED <<xkind, doc, file0, disorders, xpc, logs, fault, counts, run, first_out,
                   oboVars, synVars, navVars,
                   cleared, handles>>

\* if 'id' not in term: continue
OboTermSkip ==
    /\ xpc = "terms"
    /\ xi <= Len(disorders)
    /\ <<"i","d">> \notin DOMAIN disorders[xi]
    /\ xi' = xi + 1
    /\ UNCHANGED <<xkind, doc, file0, out_file, disorders, xpc, logs, fault, counts, run,
                   first_out, oboVars, synVars, navVars,
                   cleared, handles>>

\* logger.info(...); return 0
OboReturn ==
    /\ xpc = "terms"
    /\ xi > Len(disorders)
    /\ logs' = logs \o <<"info">>
    /\ xpc' = "returned"
    /\ handles' = {}
    /\ UNCHANGED <<xkind, doc, file0, out_file, disorders, xi, fault, counts, run, first_out,
                   oboVars, synVars, navVars,
                   cleared>>

-----------------------------------------------------------------------------
(* a call of convert, of any of the six modules, and the call repeated *)

AllKinds == Kinds \cup {"xml4", "hpoa", "obo"}

DocsFor(kind) ==
    CASE kind \in Kinds ->
           {WithNs(Node("JDBOR", es), ns) : es \in EntityLists, ns \in {"", "o"}}
      [] kind = "xml4" ->
           {WithNs(Node("JDBOR", es), ns) :
               es \in UNION {[1..n -> LinkAssociations] : n \in 0..MaxDisorders},
               ns \in {"", "o"}}
      [] kind = "hpoa" -> UNION {[1..n -> HpoaLines] : n \in 0..MaxRecords}
      [] kind = "obo" -> UNION {[1..n -> OboConvLines] : n \in 0..(MaxRecords + 1)}

\* what can stand against the call: the parent of the output path cannot be
\* created, the input cannot be opened, the input is no complete XML document
Faults(kind) ==
    IF kind \in {"hpoa", "obo"} THEN {"none", "no_parent", "no_input"}
    ELSE {"none", "no_parent", "no_input", "malformed"}

\* the input is read: there is nothing against the call, or what there is shows
\* only at the end of the streaming pass
InputRead == fault = "none" \/ (xkind = "xml4" /\ fault = "malformed")

ConvInit ==
    /\ xkind \in AllKinds
    /\ fault \in Faults(xkind)
    /\ doc \in (IF InputRead THEN DocsFor(xkind) ELSE {<<>>})
    /\ file0 \in (IF fault = "no_parent" THEN {None} ELSE {None, Some(<< <<"stale">> >>)})
    /\ out_file = file0
    /\ disorders = <<>>
    /\ xi = 1
    /\ xpc = "called"
    /\ logs = <<>>
    /\ counts = [total |-> 0, valid |-> 0]
    /\ run = 1
    /\ first_out = None
    /\ cleared = {}
    /\ handles = {}
    /\ OboIdle
    /\ SynIdle
    /\ NavIdle

\* csv_path.parent.mkdir(parents=True, exist_ok=True) succeeds
ConvertEnter ==
    /\ xpc = "called"
    /\ InputRead
    /\ xpc' = "start"
    /\ UNCHANGED <<xkind, doc, file0, out_file, disorders, xi, logs, fault, counts, run,
                   first_out, oboVars, synVars, navVars,
                   cleared, handles>>

\* mkdir raises OSError: inside the try of parse_orpha_xml4 (logged, raised as
\* CustomException), before the try of the other five (the OSError leaves convert)
RaiseMkdir ==
    /\ xpc = "called"
    /\ fault = "no_parent"
    /\ xpc' = (IF xkind = "xml4" THEN "raised" ELSE "oserror")
    /\ logs' = (IF xkind = "xml4" THEN logs \o <<"error">> ELSE logs)
    /\ UNCHANGED <<xkind, doc, file0, out_file, disorders, xi, fault, counts, run, first_out,
                   oboVars, synVars, navVars,
                   cleared, handles>>

\* the input cannot be opened or parsed: the except clause logs and raises
\* CustomException; parse_orpha_xml4 and parse_hpo_obo have opened the output
\* and written the header before they open the input, parse_hpo_obo in a with
\* statement that closes it, parse_orpha_xml4 without one
RaiseInput ==
    /\ xpc = "called"
    /\ fault \in {"no_input", "malformed"}
    /\ ~InputRead
    /\ out_file' = (IF xkind \in {"xml4", "obo"}
                    THEN OpenWrite(out_file, <<StreamFieldnames(xkind)>>)
                    ELSE out_file)
    /\ logs' = logs \o ReadingLog(xkind) \o <<"error">>
    /\ xpc' = "raised"
    /\ handles' = IF xkind = "xml4" THEN {"output"} ELSE {}
    /\ UNCHANGED <<xkind, doc, file0, disorders, xi, fault, counts, run, first_out,
                   oboVars, synVars, navVars,
                   cleared>>

\* convert is called again, on the same input and the same output path
ConvertAgain ==
    /\ xpc = "returned"
    /\ run = 1
    /\ run' = 2
    /\ first_out' = out_file
    /\ file0' = out_file
    /\ disorders' = <<>>
    /\ xi' = 1
    /\ counts' = [total |-> 0, valid |-> 0]
    /\ xpc' = "called"
    /\ cleared' = {}
    /\ UNCHANGED <<xkind, doc, out_file, logs, fault, oboVars, synVars, navVars,
                   handles>>

ConvNext ==
    \/ ConvertEnter \/ RaiseMkdir \/ RaiseInput \/ ConvertAgain
    \/ XmlNext
    \/ LinkOpen \/ LinkWrite \/ LinkSkip \/ LinkReturn \/ LinkRaise
    \/ HpoaOpen \/ HpoaRaiseEmpty \/ HpoaWrite \/ HpoaSkip \/ HpoaReturn
    \/ OboOpen \/ OboTermWrite \/ OboTermSkip \/ OboReturn

SpecConv == ConvInit /\ [][ConvNext]_vars

-----------------------------------------------------------------------------
(* calls of the functions of utils/xml_utlis.py *)

\* The calls: no parent, or a parent with children of one name that differ in
\* lang and in text, with and without a namespace, or an entity of the dumps.
NavCalls ==
    LET node == Node("Gene",
                     <<Elem("", "Name", {<<"lang", "fr">>}, Text("", "F", ""), <<>>),
                       Elem("", "Name", {}, Text(" ", "A", " "), <<>>),
                       Elem("", "Name", {<<"lang", "en">>}, Text("", "E", ""), <<>>),
                       Node("Symbol", <<>>),
                       Leaf("Symbol", "K"),
                       Node("Nested", <<Leaf("OrphaCode", "1")>>)>>)
    IN [fn : {"find_first", "find_all", "find_text", "find_text_lang"},
        parent : {None} \cup {Some(e) : e \in {node, WithNs(node, "o"), DisorderFull,
                                                DisorderBare}},
        name : {"Name", "Symbol", "OrphaCode", "Absent"},
        lang : {"en", "fr"},
        default : {"", "d"}]

NavInit ==
    /\ nav_call \in NavCalls
    /\ nav_result = None
    /\ OboIdle
    /\ SynIdle
    /\ XmlIdle

CallFindFirst ==
    /\ nav_call.fn = "find_first"
    /\ nav_result = None
    /\ nav_result' = Some(find_first(nav_call.parent, nav_call.name))
    /\ UNCHANGED <<nav_call, oboVars, synVars, xmlVars>>

CallFindAll ==
    /\ nav_call.fn = "find_all"
    /\ nav_result = None
    /\ nav_result' = Some(find_all(nav_call.parent, nav_call.name))
    /\ UNCHANGED <<nav_call, oboVars, synVars, xmlVars>>

CallFindText ==
    /\ nav_call.fn = "find_text"
    /\ nav_result = None
    /\ nav_result' = Some(find_text(nav_call.parent, nav_call.name, nav_call.default))
    /\ UNCHANGED <<nav_call, oboVars, synVars, xmlVars>>

CallFindTextLang ==
    /\ nav_call.fn = "find_text_lang"
    /\ nav_result = None
    /\ nav_result' = Some(find_text_lang(nav_call.parent, nav_call.name, nav_call.lang,
                                         nav_call.default))
    /\ UNCHANGED <<nav_call, oboVars, synVars, xmlVars>>

NavNext == CallFindFirst \/ CallFindAll \/ CallFindText \/ CallFindTextLang

SpecNav == NavInit /\ [][NavNext]_vars

-----------------------------------------------------------------------------
(* Properties of the tag-block reader *)

IsIndented(l) == l # <<>> /\ IsSpaceCh(l[1])

\* a non-indented `tag: value` line with a non-empty value
IsValueLine(l) == l # <<>> /\ ~IsSpaceCh(l[1]) /\ ParseTagValue(l)[2] # <<>>

InTermBlock == current_block # <<>> /\ current_block[1] = TermMarker

\* the values of the value-bearing lines of blk that carry tag, in line order
ValuesOf(blk, tag) ==
    LET Test(l) == IsValueLine(l) /\ ParseTagValue(l)[1] = tag
        sel == SelectSeq(Tail(blk), Test)
    IN [i \in 1..Len(sel) |-> ParseTagValue(sel[i])[2]]

\* C1: in a [Term] block made of value-bearing tag lines, each of the six
\* multi-valued tags holds all its values in first-seen order and every other
\* tag holds exactly one value, the last one seen.
C1_TagAccumulation ==
    (InTermBlock /\ \A i \in 2..Len(current_block) : IsValueLine(current_block[i])) =>
        LET term == ParseTermBlock(current_block)[1]
            tags == {ParseTagValue(current_block[i])[1] : i \in 2..Len(current_block)}
            multi == { <<"s","y","n","o","n","y","m">>, <<"x","r","e","f">>,
                       <<"a","l","t","_","i","d">>, <<"i","s","_","a">>,
                       <<"i","n","t","e","r","s","e","c","t","i","o","n","_","o","f">>,
                       <<"d","i","s","j","o","i","n","t","_","f","r","o","m">> }
        IN /\ MultiValuedTags = multi
           /\ DOMAIN term = tags
           /\ \A t \in tags :
                LET vals == ValuesOf(current_block, t)
                IN IF t \in multi THEN term[t] = vals ELSE term[t] = <<vals[Len(vals)]>>

\* a block in which xref was given twice and id twice
C1_Witness ==
    /\ InTermBlock
    /\ \A i \in 2..Len(current_block) : IsValueLine(current_block[i])
    /\ Len(ValuesOf(current_block, <<"x","r","e","f">>)) = 2
    /\ Len(ParseTermBlock(current_block)[1][<<"x","r","e","f">>]) = 2

\* C2: in an open [Term] block the tag names of the resulting Term are exactly
\* the tags of the non-indented value-bearing lines; a line that begins with
\* whitespace never creates a tag.
C2_ContinuationNeverCreatesTag ==
    InTermBlock =>
        DOMAIN ParseTermBlock(current_block)[1] =
            { ParseTagValue(current_block[i])[1] :
                i \in {j \in 2..Len(current_block) : IsValueLine(current_block[j])} }

\* C3: a continuation line c (a line that begins with whitespace) turns the
\* last value V of the most recently seen tag into V + " " + strip(c) and
\* changes nothing else; with no recorded value for that tag it has no effect.
C3_ContinuationAppends ==
    (InTermBlock /\ Len(current_block) >= 2 /\ IsIndented(current_block[Len(current_block)])) =>
        LET c == current_block[Len(current_block)]
            before == ScanBlock(SubSeq(current_block, 1, Len(current_block) - 1))
            after == ScanBlock(current_block)
        IN IF before.current_tag # None /\ before.current_tag[1] \in DOMAIN before.term
           THEN LET tag == before.current_tag[1]
                    n == Len(before.term[tag])
                IN after.term =
                     [before.term EXCEPT ![tag][n] = @ \o <<" ">> \o Strip(c)]
           ELSE after.term = before.term

\* the Terms of the blocks opened by a [Term] line at or after line i of ls,
\* each block running up to the next [Term] line, blank line or end of stream
RECURSIVE TermsFrom(_, _)
TermsFrom(ls, i) ==
    IF i > Len(ls)
    THEN <<>>
    ELSE IF ls[i] = TermMarker
    THEN LET ends == {j \in i..Len(ls) :
                        \A k \in (i + 1)..j : ls[k] # TermMarker /\ ls[k] # <<>>}
             last == CHOOSE j \in ends : \A k \in ends : k <= j
         IN <<ParseTermBlock(SubSeq(ls, i, last))[1]>> \o TermsFrom(ls, i + 1)
    ELSE TermsFrom(ls, i + 1)

\* C4: at end of stream the reader has yielded exactly one Term per block
\* opened by a [Term] line, in input order, each block ending at the next
\* [Term] line, blank line or end of stream.
C4_OneTermPerBlock ==
    obo_pc = "done" =>
        yielded = TermsFrom([i \in 1..Len(stream) |-> Rstrip(stream[i])], 1)

\* C5: a block is emitted as a Term only if its first line is the marker [Term].
C5_OnlyMarkedBlocksEmitted ==
    [][Len(yielded') > Len(yielded) => InTermBlock]_vars

-----------------------------------------------------------------------------
(* Properties of extract_synonym_details *)

\* the call has returned for a string of the shape
\* "<text>" <TYPE> [<SUBTYPE>] [<source>], TYPE and SUBTYPE word tokens
SynShaped == syn_result # None /\ synonym.parts # None /\ synonym.parts[1].defect = "none"

\* C6 as stated (for a non-empty quoted text): text is the quoted text as it stands, type is TYPE or
\* TYPE + " " + SUBTYPE, source is the content of the brackets as it stands.
C6_DecomposeVerbatim ==
    (SynShaped /\ synonym.parts[1].text # <<>>) =>
        syn_result[1] =
            <<synonym.parts[1].text, Tokens(synonym.parts[1]), synonym.parts[1].source>>

\* C6 amended: for a string of the shape with a non-empty quoted text, text is
\* the quoted text stripped of surrounding whitespace, type is TYPE or
\* TYPE + " " + SUBTYPE, source is the content of the brackets stripped of
\* surrounding whitespace.
C6_DecomposeStripped ==
    (SynShaped /\ synonym.parts[1].text # <<>>) =>
        syn_result[1] =
            <<Strip(synonym.parts[1].text), Tokens(synonym.parts[1]),
              Strip(synonym.parts[1].source)>>

\* "<space>a" E l [] has been decomposed into (a, E l, empty)
C6_Witness ==
    /\ SynShaped
    /\ synonym.parts[1].text = <<" ", "a">>
    /\ synonym.parts[1].type = <<"E">>
    /\ synonym.parts[1].subtype = Some(<<"l">>)
    /\ synonym.parts[1].source = <<>>
    /\ syn_result[1] = << <<"a">>, <<"E", " ", "l">>, <<>> >>

\* C7: a string that falls short of the quoted-text-plus-type shape comes back
\* unchanged as the text, with empty type and empty source, and every call
\* returns a triple.
C7_FallbackVerbatim ==
    syn_result # None =>
        /\ Len(syn_result[1]) = 3
        /\ (synonym.parts[1].defect # "none" \/ synonym.parts[1].text = <<>>) =>
              syn_result[1] = <<synonym.chars, <<>>, <<>>>>

\* free text with no quotes has come back unchanged
C7_Witness ==
    /\ syn_result # None
    /\ synonym.parts[1].defect = "noquotes"
    /\ synonym.parts[1].text = <<"a", " ", "b">>
    /\ syn_result[1] = <<synonym.chars, <<>>, <<>>>>

-----------------------------------------------------------------------------
(* Properties of the XML conversions *)

\* the number of Disorder elements below kids
RECURSIVE CountDisorderNodes(_)
CountDisorderNodes(kids) ==
    IF kids = <<>> THEN 0
    ELSE (IF Head(kids).name = "Disorder" THEN 1 ELSE 0)
         + CountDisorderNodes(Head(kids).kids) + CountDisorderNodes(Tail(kids))

\* the rows of the output file after its header
DataRows == Tail(out_file[1])

\* C8: the single-entity conversion writes one row per Disorder node of the
\* document, in document order, whatever children the entities have or lack.
C8_OneRowPerDisorder ==
    xkind = "xml1" =>
        /\ xpc = "writing" => Len(DataRows) = xi - 1
        /\ xpc = "returned" =>
              /\ Len(DataRows) = CountDisorderNodes(doc.kids)
              /\ Len(DataRows) = Len(disorders)
              /\ \A i \in 1..Len(DataRows) : DataRows[i].id = GetAttr(disorders[i], "id", "")

\* a bare entity followed by a full one has given two rows, in that order
C8_Witness ==
    /\ xkind = "xml1" /\ xpc = "returned"
    /\ disorders = <<DisorderBare, DisorderFull>>
    /\ Len(DataRows) = 2
    /\ DataRows[1].id = "" /\ DataRows[2].id = "1" /\ DataRows[2].Name = "A"

\* C9: on a document without any Disorder node each of the three conversions
\* raises, and the output path is left as it was: not created, not truncated.
C9_NoDisordersRaises ==
    (xpc \notin {"idle", "start"} /\ CountDisorderNodes(doc.kids) = 0) =>
        /\ xpc = "raised"
        /\ out_file = file0

\* convert has raised on an empty entity list and an earlier file is intact
C9_Witness ==
    /\ xpc = "raised"
    /\ CountDisorderNodes(doc.kids) = 0
    /\ file0 # None
    /\ out_file = file0

OuterColumns6 ==
    {"DisorderID", "OrphaCode", "DisorderName", "ExpertLink", "DisorderType", "DisorderGroup"}

\* the associations of entity d that have a Gene child
GeneAssociations(d) ==
    LET HasGene(a) == \E i \in 1..Len(a.kids) : a.kids[i].name = "Gene"
    IN SelectSeq(ETFindAll(d, <<"DisorderGeneAssociationList", "DisorderGeneAssociation">>),
                 HasGene)

\* per entity and per association with a gene, in order: the entity's outer
\* fields and the gene's id
RECURSIVE ExpectedGeneRows(_)
ExpectedGeneRows(ds) ==
    IF ds = <<>> THEN <<>>
    ELSE [i \in 1..Len(GeneAssociations(Head(ds))) |->
            <<DisorderInfo6(Head(ds)),
              GetAttr(ETFind(GeneAssociations(Head(ds))[i], <<"Gene">>)[1], "id", "")>>]
         \o ExpectedGeneRows(Tail(ds))

\* C10: each entity yields one row per association that has a Gene, in order,
\* none for an association without one, and every row carries the entity's own
\* values in the six outer columns.
C10_GeneRowsCarryOuterFields ==
    (xkind = "xml6" /\ xpc = "returned") =>
        [i \in 1..Len(DataRows) |->
            <<[c \in OuterColumns6 |-> DataRows[i][c]], DataRows[i].GeneID>>]
          = ExpectedGeneRows(disorders)

\* an entity with three associations, two of them with a gene, has given two rows
C10_Witness ==
    /\ xkind = "xml6" /\ xpc = "returned"
    /\ disorders = <<DisorderGenes>>
    /\ Len(DataRows) = 2
    /\ DataRows[1].GeneID = "g1" /\ DataRows[2].GeneID = "g3"
    /\ DataRows[1].OrphaCode = "7" /\ DataRows[2].OrphaCode = "7"

\* the DisorderDisorderAssociation elements of entity d: the children of that
\* name of its first DisorderDisorderAssociationList child
AssociationElements(d) ==
    LET lists == SelectSeq(d.kids, LAMBDA k : k.name = "DisorderDisorderAssociationList")
    IN IF lists = <<>> THEN <<>>
       ELSE SelectSeq(lists[1].kids, LAMBDA k : k.name = "DisorderDisorderAssociation")

\* the count attribute of the association list of d as a number, 0 without it
DeclaredCount(d) ==
    LET lists == SelectSeq(d.kids, LAMBDA k : k.name = "DisorderDisorderAssociationList")
    IN IF \E a \in lists[1].attrs : a[1] = "count"
       THEN ParseInt((CHOOSE a \in lists[1].attrs : a[1] = "count")[2])[1]
       ELSE 0

\* per entity and per association element, in order: the parent's OrphaCode,
\* DisorderName, ExpertLink and the declared count, with the association's type
RECURSIVE ExpectedAssociationRows(_)
ExpectedAssociationRows(ds) ==
    IF ds = <<>> THEN <<>>
    ELSE [i \in 1..Len(AssociationElements(Head(ds))) |->
            <<FindText(Head(ds), "OrphaCode"), FindTextLang(Head(ds), "Name", "en"),
              FindTextLang(Head(ds), "ExpertLink", "en"), DeclaredCount(Head(ds)),
              FindStripped(AssociationElements(Head(ds))[i],
                           <<"DisorderDisorderAssociationType", "Name">>)>>]
         \o ExpectedAssociationRows(Tail(ds))

\* C11: in the disorder-association flattener the rows written for the entities
\* processed so far are, in order, one row per association element of each
\* entity's association list (none for an entity without a list or with an
\* empty one), each with the parent's OrphaCode, DisorderName, ExpertLink and
\* TotalAssociations = the list's count attribute as a number, 0 without it.
C11_OneRowPerAssociation ==
    (xkind = "xml7" /\ xpc \in {"writing", "returned"}) =>
        [i \in 1..Len(DataRows) |->
            <<DataRows[i].OrphaCode, DataRows[i].DisorderName, DataRows[i].ExpertLink,
              DataRows[i].TotalAssociations, DataRows[i].AssociationType>>]
          = ExpectedAssociationRows(SubSeq(disorders, 1, xi - 1))

\* a list without count (one association without target and root) and an empty
\* list have given 1 + 0 rows
C11_Witness ==
    /\ xkind = "xml7" /\ xpc = "returned"
    /\ disorders = <<DisorderNoCount, DisorderEmptyList>>
    /\ Len(DataRows) = 1
    /\ DataRows[1].TotalAssociations = 0 /\ DataRows[1].OrphaCode = "6"
    /\ DataRows[1].TargetId = "" /\ DataRows[1].RootId = ""

-----------------------------------------------------------------------------
(* Properties of the streaming link parser *)

\* the first text of texts that is not empty, an empty text when there is none
RECURSIVE FirstNonEmpty(_)
FirstNonEmpty(texts) ==
    IF texts = <<>> THEN <<>>
    ELSE IF Len(Head(texts)) > 0 THEN Head(texts)
    ELSE FirstNonEmpty(Tail(texts))

\* the source-entity identifier and the ontology-term identifier of an
\* association element, empty when they do not resolve
SourceId(e) ==
    IF FindFirst(e, "Disorder") = None THEN <<>>
    ELSE FirstNonEmpty(<<FindText(FindFirst(e, "Disorder")[1], "OrphaNumber"),
                         FindText(FindFirst(e, "Disorder")[1], "OrphaCode")>>)
TermId(e) ==
    IF FindFirst(e, "HPO") = None THEN <<>>
    ELSE FirstNonEmpty(<<FindText(FindFirst(e, "HPO")[1], "HPOId"),
                         FindText(FindFirst(e, "HPO")[1], "HPO_ID"),
                         FindText(FindFirst(e, "HPO")[1], "Id"),
                         FindText(FindFirst(e, "HPO")[1], "ID")>>)

\* the association elements inspected so far that have both identifiers
LinkedSoFar ==
    SelectSeq(SubSeq(disorders, 1, xi - 1),
              LAMBDA e : /\ e.name = "DisorderHPOTermAssociation"
                         /\ Len(SourceId(e)) > 0
                         /\ Len(TermId(e)) > 0)

\* the pass of the streaming link parser has begun
LinkPassBegun ==
    /\ xkind = "xml4"
    /\ xpc \in {"linking", "returned"} \/ (xpc = "raised" /\ fault = "malformed")

\* C12: the rows written by the streaming link parser are, in number and in
\* order, the association elements inspected so far that have both a source
\* identifier and a term identifier; an element without either gives no row
\* and does not make the pass raise.
C12_RowIffBothIdentifiers ==
    /\ LinkPassBegun =>
          /\ Len(DataRows) = Len(LinkedSoFar)
          /\ \A i \in 1..Len(DataRows) :
                DataRows[i].start_orpha_id = "ORPHA:" \o SourceId(LinkedSoFar[i])
    /\ (xkind = "xml4" /\ fault = "none") => xpc # "raised"

\* a pass over an association without source entity, one with both identifiers
\* and one without term identifier has returned with one row
C12_Witness ==
    /\ xkind = "xml4" /\ xpc = "returned" /\ run = 1
    /\ doc = Node("JDBOR", <<LinkNoDisorder, LinkFull>>)
    /\ Len(DataRows) = 1
    /\ DataRows[1].start_orpha_id = "ORPHA:166024"

\* C13: every row of the streaming link parser has start_orpha_id = "ORPHA:" +
\* the first non-empty of the OrphaNumber and OrphaCode texts of the source
\* entity, and end_hp_id = the first non-empty of the HPOId, HPO_ID, Id, ID
\* texts of the HPO block with each `_` become `:` and each letter upper-case;
\* 166024 with HP_0001250 gives ORPHA:166024 and HP:0001250.
C13_RowIdentifiers ==
    LinkPassBegun =>
        \A i \in 1..Len(DataRows) :
           LET e == LinkedSoFar[i]
               hp == DataRows[i].end_hp_id
           IN /\ DataRows[i].start_orpha_id = "ORPHA:" \o SourceId(e)
              /\ Len(hp) = Len(TermId(e))
              /\ \A k \in 1..Len(hp) :
                    \/ TermId(e)[k] = "_" /\ hp[k] = ":"
                    \/ \E j \in 1..Len(LowerCase) :
                          TermId(e)[k] \in {LowerCase[j], UpperCase[j]} /\ hp[k] = UpperCase[j]
                    \/ /\ TermId(e)[k] # "_"
                       /\ \A j \in 1..Len(LowerCase) :
                             TermId(e)[k] \notin {LowerCase[j], UpperCase[j]}
                       /\ hp[k] = TermId(e)[k]
              /\ (e = LinkFull \/ e = WithNs(LinkFull, "o")) =>
                    /\ DataRows[i].start_orpha_id = "ORPHA:166024"
                    /\ hp = <<"H","P",":","0","0","0","1","2","5","0">>

\* the rows of 166024 / HP_0001250 and of a blank OrphaNumber with OrphaCode 9
\* and ID Hp_4 have been written
C13_Witness ==
    /\ xkind = "xml4" /\ xpc = "returned"
    /\ Len(DataRows) = 2
    /\ DataRows[1].start_orpha_id = "ORPHA:166024"
    /\ DataRows[1].end_hp_id = <<"H","P",":","0","0","0","1","2","5","0">>
    /\ DataRows[2].start_orpha_id = "ORPHA:9"
    /\ DataRows[2].end_hp_id = <<"H","P",":","4">>

-----------------------------------------------------------------------------
(* Properties of the annotation reader *)

\* the annotation reader is in or past its loop over the data lines
HpoaBegun == xkind = "hpoa" /\ xpc \in {"annotating", "returned"}

\* the data rows of the output: what follows the metadata comments and the header
HpoaRows == SubSeq(out_file[1], Len(ParseMetadata(doc)) + 2, Len(out_file[1]))

\* the line has exactly twelve tab-separated fields
TwelveFields(line) == Len(SplitOn(line, "\t")) = Len(StreamFieldnames("hpoa"))

\* C14: a data line that does not split into exactly twelve tab-separated
\* fields gives no row and one log entry, and the run goes on; the total count
\* is the number of lines handled after the header, the parsed count the number
\* of rows written, and total - parsed the number of lines skipped.
C14_ShapeSkipsAndCounts ==
    /\ [](HpoaBegun =>
            /\ counts.total = xi - 1
            /\ counts.valid = Len(HpoaRows)
            /\ counts.valid <= counts.total
            /\ xpc = "returned" => counts.total = Len(doc) - HeaderIndex(doc))
    /\ [][(HpoaBegun /\ xi' = xi + 1 /\ ~TwelveFields(disorders[xi])) =>
             /\ out_file' = out_file
             /\ Len(logs') = Len(logs) + 1
             /\ xpc' = "annotating"]_vars

\* the number of leading metadata lines: the comment lines before the first
\* line that is no comment
LeadingComments(lines) ==
    Cardinality({i \in 1..Len(lines) : \A j \in 1..i : IsComment(lines[j])})

\* C15: the leading metadata lines are parsed into key/value pairs by splitting
\* on the first `:`, none of them is handled as a data line, and the one line
\* consumed as the header is the first line that is no comment.
C15_MetadataNeverData ==
    HpoaBegun =>
        LET lead == LeadingComments(doc)
        IN /\ HeaderIndex(doc) = lead + 1
           /\ ~IsComment(doc[HeaderIndex(doc)])
           /\ disorders = SubSeq(doc, lead + 2, Len(doc))
           /\ \A i \in 1..lead :
                 Len(SplitOn(doc[i], ":")) > 1 =>
                    \E m \in 1..Len(ParseMetadata(doc)) :
                       out_file[1][m][2] = Strip(Tail(SplitOn(doc[i], ":")[1]))

\* C15 where the input has a line that is no comment
C15_HeaderPresent ==
    (HpoaBegun /\ \E i \in 1..Len(doc) : ~IsComment(doc[i])) =>
        LET lead == LeadingComments(doc)
        IN /\ HeaderIndex(doc) = lead + 1
           /\ ~IsComment(doc[HeaderIndex(doc)])
           /\ disorders = SubSeq(doc, lead + 2, Len(doc))
           /\ \A i \in 1..lead :
                 Len(SplitOn(doc[i], ":")) > 1 =>
                    \E m \in 1..Len(ParseMetadata(doc)) :
                       out_file[1][m][2] = Strip(Tail(SplitOn(doc[i], ":")[1]))

-----------------------------------------------------------------------------
(* Properties of a call of convert *)

\* C16: for each of the six conversions, convert called again on the same input
\* and the same output path returns again and leaves the output file equal to
\* the one the first call left: what the path held before is overwritten.
C16_SecondRunSameOutput ==
    run = 2 =>
        /\ xpc \notin {"raised", "oserror"}
        /\ xpc = "returned" => out_file = first_out

\* the annotation reader has returned a second time, over an output that held
\* a metadata comment, the header and a row
C16_Witness ==
    /\ run = 2 /\ xpc = "returned" /\ xkind = "hpoa"
    /\ file0 = first_out
    /\ Len(ParseMetadata(doc)) = 1
    /\ Len(HpoaRows) = 1
    /\ Len(out_file[1]) = 3

\* C17: a call of convert that nothing stands against returns 0, and a call
\* that fails (the parent of the output cannot be created, the input cannot be
\* opened or parsed, a record makes the parser raise) ends with CustomException
\* raised: never with another exception, never returned.
C17_FailuresAreTyped ==
    /\ xpc # "oserror"
    /\ fault # "none" => xpc # "returned"
    /\ (xpc = "raised" /\ fault = "none") =>
          \/ xkind \in Kinds /\ NoDisorders(FindDisorders(doc))
          \/ xkind = "xml7" /\ xi <= Len(disorders) /\ CountFails7(disorders[xi])
          \/ xkind = "hpoa" /\ doc = <<>>

\* C17 but for the creation of the parent of the output path
C17_TypedPastMkdir ==
    /\ (fault # "no_parent") => xpc # "oserror"
    /\ fault # "none" => xpc # "returned"

\* the rows of the entities ds, in order, up to an entity that makes the
\* flattener raise
RECURSIVE PlainRows(_, _)
PlainRows(kind, ds) ==
    IF ds = <<>> \/ RowsFail(kind, Head(ds)) THEN <<>>
    ELSE RowsOf(kind, Head(ds)) \o PlainRows(kind, Tail(ds))

\* the rows of the streaming link parser for the elements es
PlainLinkRows(es) ==
    LET linked == SelectSeq(es, EmitsRow)
    IN [i \in 1..Len(linked) |-> LinkRow(linked[i])]

\* C18: a tree-based parser ends on a document whose tags carry a namespace as
\* it ends on the same document without namespace: it raises for want of
\* entities only if that one has none, and it writes the same rows.
C18_NamespaceAgnostic ==
    (fault = "none" /\ xpc \in {"returned", "raised"}) =>
        /\ xkind \in Kinds =>
              /\ (xpc = "raised" /\ out_file = file0)
                    <=> NoDisorders(FindDisorders(WithNs(doc, "")))
              /\ out_file # file0 =>
                    DataRows = PlainRows(xkind, FindDisorders(WithNs(doc, "")))
        /\ xkind = "xml4" =>
              DataRows = PlainLinkRows(EndEvents(<<WithNs(doc, "")>>))

\* C18 for the streaming link parser alone
C18_LinkNamespaceAgnostic ==
    (fault = "none" /\ xpc \in {"returned", "raised"} /\ xkind = "xml4") =>
        DataRows = PlainLinkRows(EndEvents(<<WithNs(doc, "")>>))

\* the association elements of the entities ds, in order
RECURSIVE AllAssociationElements(_)
AllAssociationElements(ds) ==
    IF ds = <<>> THEN <<>>
    ELSE AssociationElements(Head(ds)) \o AllAssociationElements(Tail(ds))

\* e has a child of that name
HasChild(e, name) == \E i \in 1..Len(e.kids) : e.kids[i].name = name

\* C19: a column whose source field is absent from the record is written as
\* the empty string: in the single-entity output the columns of an entity
\* without the child they are read from, in the disorder-association output
\* the target columns of an association without TargetDisorder and the root
\* columns of one without RootDisorder.
C19_MissingIsEmpty ==
    /\ (xkind = "xml1" /\ xpc \in {"writing", "returned"}) =>
          \A i \in 1..Len(DataRows) :
             /\ ~HasChild(disorders[i], "OrphaCode") => DataRows[i].OrphaCode = ""
             /\ ~HasChild(disorders[i], "Name") => DataRows[i].Name = ""
             /\ ~HasChild(disorders[i], "ExpertLink") => DataRows[i].ExpertLink = ""
             /\ ~HasChild(disorders[i], "SynonymList") => DataRows[i].Synonyms = ""
             /\ ~HasChild(disorders[i], "DisorderType") => DataRows[i].DisorderType = ""
             /\ ~HasChild(disorders[i], "DisorderGroup") => DataRows[i].DisorderGroup = ""
             /\ ~HasChild(disorders[i], "ExternalReferenceList") =>
                   DataRows[i].ExternalReferences = ""
             /\ ~HasChild(disorders[i], "SummaryInformationList") =>
                   DataRows[i].Definition = ""
    /\ (xkind = "xml7" /\ xpc \in {"writing", "returned"}) =>
          \A i \in 1..Len(DataRows) :
             LET a == AllAssociationElements(SubSeq(disorders, 1, xi - 1))[i]
             IN /\ ~HasChild(a, "TargetDisorder") =>
                      /\ DataRows[i].TargetId = ""
                      /\ DataRows[i].TargetOrphaCode = ""
                      /\ DataRows[i].TargetName = ""
                /\ ~HasChild(a, "DisorderDisorderAssociationType") =>
                      DataRows[i].AssociationType = ""
                /\ ~HasChild(a, "RootDisorder") =>
                      /\ DataRows[i].RootId = ""
                      /\ DataRows[i].IsCycle = ""

\* C19 but for the IsCycle column
C19_MissingIsEmptyButIsCycle ==
    (xkind = "xml7" /\ xpc \in {"writing", "returned"}) =>
        \A i \in 1..Len(DataRows) :
           LET a == AllAssociationElements(SubSeq(disorders, 1, xi - 1))[i]
           IN /\ ~HasChild(a, "TargetDisorder") =>
                    /\ DataRows[i].TargetId = ""
                    /\ DataRows[i].TargetOrphaCode = ""
                    /\ DataRows[i].TargetName = ""
              /\ ~HasChild(a, "DisorderDisorderAssociationType") =>
                    DataRows[i].AssociationType = ""
              /\ ~HasChild(a, "RootDisorder") => DataRows[i].RootId = ""

\* the record handled by this step fails locally: an annotation line of the
\* wrong shape, a Term with a synonym that does not match the pattern, an
\* entity with an association that has no Gene
RecordFailsLocally ==
    /\ xi <= Len(disorders)
    /\ \/ xkind = "hpoa" /\ xpc = "annotating" /\ ParseHpoaLine(disorders[xi]) = None
       \/ /\ xkind = "obo" /\ xpc = "terms"
          /\ <<"i","d">> \in DOMAIN disorders[xi]
          /\ <<"s","y","n","o","n","y","m">> \in DOMAIN disorders[xi]
          /\ \E k \in 1..Len(disorders[xi][<<"s","y","n","o","n","y","m">>]) :
                ReMatch(disorders[xi][<<"s","y","n","o","n","y","m">>][k]) = None
       \/ /\ xkind = "xml6" /\ xpc = "writing"
          /\ \E a \in {ETFindAll(disorders[xi], <<"DisorderGeneAssociationList",
                                                  "DisorderGeneAssociation">>)[k] :
                         k \in 1..Len(ETFindAll(disorders[xi],
                                                <<"DisorderGeneAssociationList",
                                                  "DisorderGeneAssociation">>))} :
                ~HasChild(a, "Gene")

\* C20: every step that handles a record failing locally adds a log entry.
C20_LocalFailuresLogged ==
    [][(RecordFailsLocally /\ xi' = xi + 1) => Len(logs') > Len(logs)]_vars

\* C20 for the annotation lines alone
C20_BadLinesLogged ==
    [][(RecordFailsLocally /\ xkind = "hpoa" /\ xi' = xi + 1) => Len(logs') > Len(logs)]_vars

-----------------------------------------------------------------------------
(* Properties of the streaming pass: what the tree keeps *)

\* the number of elements of the subtree of e, e included
RECURSIVE SubtreeSize(_)
SubtreeSize(e) ==
    IF e.kids = <<>> THEN 1
    ELSE 1 + SubtreeSize(e.kids[1]) + SubtreeSize([e EXCEPT !.kids = Tail(e.kids)]) - 1

\* the delivered element j has been released: clear() was called on it, or on
\* an element that held it (the elements of a subtree are delivered just
\* before its root)
Released(j) ==
    \/ j \in cleared
    \/ \E k \in cleared : k - SubtreeSize(disorders[k]) < j /\ j < k

\* the pass of parse_orpha_xml4 is under way or over
LinkPassOn == xkind = "xml4" /\ xpc \in {"linking", "returned", "raised"}

\* C21: in the streaming link parser every element the pass has delivered and
\* inspected, whether it gave a row or was skipped, is released before the next
\* element is inspected.
C21_EveryElementReleased ==
    LinkPassOn => \A j \in 1..(xi - 1) : Released(j)

\* C21 for the association elements alone: each is cleared as soon as it has
\* been inspected, with everything below it
C21_AssociationsReleased ==
    LinkPassOn =>
        \A j \in 1..(xi - 1) :
            Local(disorders[j]) = "DisorderHPOTermAssociation" =>
                \A i \in (j - SubtreeSize(disorders[j]) + 1)..j : Released(i)

-----------------------------------------------------------------------------
(* Properties of the file handles *)

\* convert is over: it has returned, or raised
ConvertOver == xpc \in {"returned", "raised", "oserror"}

\* C22: in every state after convert has returned or raised, no file handle
\* that convert opened is still open.
C22_HandlesClosed == ConvertOver => handles = {}

\* C22 for the five conversions that open their files in with statements, and
\* for the streaming link parser when it returns
C22_HandlesClosedElsewhere ==
    (ConvertOver /\ (xkind # "xml4" \/ xpc = "returned")) => handles = {}

-----------------------------------------------------------------------------
(* Properties of the tree navigation functions *)

\* the direct children of the parent of the call that carry the name asked
\* for, under any namespace; none when there is no parent
NavMatches ==
    IF nav_call.parent = None THEN {}
    ELSE {i \in 1..Len(nav_call.parent[1].kids) : nav_call.parent[1].kids[i].name = nav_call.name}

\* those of them whose lang attribute is absent or the language asked for
NavLangMatches ==
    {i \in NavMatches :
        \A a \in nav_call.parent[1].kids[i].attrs : a[1] = "lang" => a[2] = nav_call.lang}

\* the first child of a non-empty set of indices of children
NavChild(hits) == nav_call.parent[1].kids[CHOOSE i \in hits : \A j \in hits : i <= j]

\* what the claim has the call return; a value of find_text_lang is written
\* Some(text), so that the None the function can return is told from it
NavExpected ==
    CASE nav_call.fn = "find_first" ->
           IF NavMatches = {} THEN None ELSE Some(NavChild(NavMatches))
      [] nav_call.fn = "find_all" ->
           IF NavMatches = {} THEN <<>>
           ELSE SelectSeq(nav_call.parent[1].kids, LAMBDA c : c.name = nav_call.name)
      [] nav_call.fn = "find_text" ->
           IF NavMatches = {} \/ ~HasText(NavChild(NavMatches))
           THEN nav_call.default
           ELSE NavChild(NavMatches).text[1].core
      [] nav_call.fn = "find_text_lang" ->
           IF NavLangMatches = {} THEN Some(nav_call.default)
           ELSE IF ~HasText(NavChild(NavLangMatches)) THEN Some("")
           ELSE Some(NavChild(NavLangMatches).text[1].core)

\* C23: find_first, find_all, find_text and find_text_lang give None, the empty
\* list and the caller's default when the parent is absent or no child matches,
\* and otherwise work on the first matching direct child.
C23_AbsenceDegrades ==
    nav_result # None => nav_result[1] = NavExpected

\* C23 without the calls of find_text_lang that have no parent
C23_AbsenceDegradesWithParent ==
    (nav_result # None /\ ~(nav_call.fn = "find_text_lang" /\ nav_call.parent = None))
        => nav_result[1] = NavExpected

-----------------------------------------------------------------------------
(* Properties of the frequency of a link row *)

\* the first candidate block of e that is present: the first Frequency child,
\* else the first HPOFrequency child, else None
FrequencyBlock(e) ==
    LET Named(n) == {i \in 1..Len(e.kids) : e.kids[i].name = n}
        First(n) == e.kids[CHOOSE i \in Named(n) : \A j \in Named(n) : i <= j]
    IN IF Named("Frequency") # {} THEN Some(First("Frequency"))
       ELSE IF Named("HPOFrequency") # {} THEN Some(First("HPOFrequency"))
       ELSE None

\* the frequency resolved from the block: the text of its Name child when that
\* is not empty, else its own stripped direct text, "" when there is no block
ResolvedFrequency(e) ==
    LET block == FrequencyBlock(e)
    IN IF block = None THEN ""
       ELSE IF Len(FindText(block[1], "Name")) > 0 THEN FindText(block[1], "Name")
       ELSE IF block[1].text = None THEN ""
       ELSE block[1].text[1].core

\* C24: the frequency of every row of the streaming link parser is resolved
\* from the first present of the Frequency and HPOFrequency children: its Name
\* text if not empty, else its own stripped text, else the empty string.
C24_FrequencyResolved ==
    LinkPassBegun =>
        \A i \in 1..Len(DataRows) :
            i <= Len(LinkedSoFar) =>
                DataRows[i].frequency = ResolvedFrequency(LinkedSoFar[i])

\* C24 for the associations whose first present candidate block has children
C24_FrequencyOfBlocksWithChildren ==
    LinkPassBegun =>
        \A i \in 1..Len(DataRows) :
            (/\ i <= Len(LinkedSoFar)
             /\ FrequencyBlock(LinkedSoFar[i]) # None
                   => FrequencyBlock(LinkedSoFar[i])[1].kids # <<>>)
                => DataRows[i].frequency = ResolvedFrequency(LinkedSoFar[i])

-----------------------------------------------------------------------------
(* Properties of the rows of the annotation reader *)

\* the row whose twelve columns are, in order, the tab-separated fields of line
FieldsRow(line) ==
    [k \in {StreamFieldnames("hpoa")[i] : i \in 1..12} |->
        SplitOn(line, "\t")[CHOOSE i \in 1..12 : StreamFieldnames("hpoa")[i] = k]]

\* C25: every data line of exactly twelve tab-separated fields, empty ones
\* among them or not, gives exactly one row, whose columns database_id ..
\* biocuration are the twelve fields in that order.
C25_TwelveFieldsOneRow ==
    [][(HpoaBegun /\ xi' = xi + 1 /\ TwelveFields(disorders[xi])) =>
          out_file' = Some(Append(out_file[1], FieldsRow(disorders[xi])))]_vars

\* C25 for the lines that neither start nor end with whitespace
C25_TwelveFieldsOneRowUnlessStripped ==
    [][(/\ HpoaBegun /\ xi' = xi + 1 /\ TwelveFields(disorders[xi])
        /\ Strip(disorders[xi]) = disorders[xi]) =>
          out_file' = Some(Append(out_file[1], FieldsRow(disorders[xi])))]_vars

-----------------------------------------------------------------------------
(* Properties of the ontology conversion *)

\* the ontology conversion is in or past its loop over the Terms
OboBegun == xkind = "obo" /\ xpc \in {"terms", "returned"}

\* the Terms handled so far that have an id, in Term order
IdentifiedSoFar ==
    SelectSeq(SubSeq(disorders, 1, xi - 1), LAMBDA t : <<"i","d">> \in DOMAIN t)

\* the texts joined by "; " in their order
RECURSIVE Joined(_)
Joined(texts) ==
    IF texts = <<>> THEN <<>>
    ELSE IF Len(texts) = 1 THEN texts[1]
    ELSE texts[1] \o <<";", " ">> \o Joined(Tail(texts))

\* the synonym values of a Term, in source order
SynonymsOf(t) ==
    IF <<"s","y","n","o","n","y","m">> \in DOMAIN t
    THEN t[<<"s","y","n","o","n","y","m">>] ELSE <<>>

-----------------------------------------------------------------------------
(* Properties of the Definition cell of the single-entity flattener *)

\* the stripped texts, in document order, that the elements at path below the
\* first SummaryInformation of the entity e hold, the empty ones left out
SummaryTexts(e, path) ==
    LET found == ETFindAll(e, <<"SummaryInformationList", "SummaryInformation">>)
        at == IF found = <<>> THEN <<>> ELSE ETFindAll(found[1], path)
        texts == [i \in 1..Len(at) |->
                     IF at[i].text = None THEN "" ELSE at[i].text[1].core]
    IN SelectSeq(texts, LAMBDA t : t # "")

\* the Definition by the chain: the text of the primary location, else that of
\* the secondary location, else the empty string
ChainDefinition(e) ==
    LET primary == SummaryTexts(e, <<"TextSectionList", "TextSection", "Contents">>)
        secondary == SummaryTexts(e, <<"TextAuto", "Info">>)
    IN IF primary # <<>> THEN primary[1]
       ELSE IF secondary # <<>> THEN secondary[1]
       ELSE ""

\* the single-entity conversion is in or past its writing loop
Xml1Begun == xkind = "xml1" /\ xpc \in {"writing", "returned"}

\* C27: the Definition cell of every row of the single-entity flattener is the
\* non-empty text of the TextSection Contents under the summary information if
\* there is one, else the non-empty text of TextAuto/Info, else the empty
\* string.
C27_DefinitionChain ==
    Xml1Begun =>
        \A i \in 1..Len(DataRows) : DataRows[i].Definition = ChainDefinition(disorders[i])

\* C27 for the entities whose Contents does not hold white space alone
C27_DefinitionChainUnlessBlank ==
    Xml1Begun =>
        \A i \in 1..Len(DataRows) :
            disorders[i] # DisorderBlankContents =>
                DataRows[i].Definition = ChainDefinition(disorders[i])

-----------------------------------------------------------------------------
(* Properties of the columns of the gene-association output *)

\* the closed list of external-reference sources
ListedSources == {"HGNC", "Ensembl", "OMIM", "SwissProt", "Genatlas", "ClinVar", "Reactome"}

\* the Gene elements of the associations of the entities ds, in order
RECURSIVE GenesOf(_)
GenesOf(ds) ==
    IF ds = <<>> THEN <<>>
    ELSE [i \in 1..Len(GeneAssociations(Head(ds))) |->
            ETFind(GeneAssociations(Head(ds))[i], <<"Gene">>)[1]]
         \o GenesOf(Tail(ds))

\* the references the gene g holds for the source src
ReferencesFor(g, src) ==
    LET refs == ETFindAll(g, <<"ExternalReferenceList", "ExternalReference">>)
    IN {FindText(refs[i], "Reference") :
           i \in {j \in 1..Len(refs) : /\ FindText(refs[j], "Source") = src
                                       /\ FindText(refs[j], "Reference") # ""}}

\* the gene-association conversion is in or past its writing loop
Xml6Begun == xkind = "xml6" /\ xpc \in {"writing", "returned"}

\* C28: the gene-association output has the same fixed columns for every
\* input; a reference whose source is not in the closed list adds no column
\* and does not make the conversion raise, a listed source the gene holds a
\* reference for is in its Ref_<source> column, and the column of a listed
\* source the gene holds none for is the empty string.
C28_FixedReferenceColumns ==
    /\ Xml6Begun =>
          /\ out_file[1][1] = Fieldnames6
          /\ Len(DataRows) = Len(GenesOf(SubSeq(disorders, 1, xi - 1)))
          /\ \A i \in 1..Len(DataRows) :
                /\ DOMAIN DataRows[i] = {Fieldnames6[k] : k \in 1..Len(Fieldnames6)}
                /\ \A src \in ListedSources :
                      LET held == ReferencesFor(GenesOf(SubSeq(disorders, 1, xi - 1))[i], src)
                      IN IF held = {}
                         THEN DataRows[i]["Ref_" \o src] = ""
                         ELSE DataRows[i]["Ref_" \o src] \in held
    /\ (xkind = "xml6" /\ FindDisorders(doc) # <<>>) => xpc # "raised"

\* the gene with a reference of HGNC, one of the unlisted source OrphaCode and
\* an OMIM source without reference has given its row
C28_Witness ==
    /\ xkind = "xml6" /\ xpc = "returned"
    /\ disorders = <<DisorderGenes>>
    /\ Len(DataRows) = 2
    /\ DataRows[1].Ref_HGNC = "5"
    /\ DataRows[1].Ref_OMIM = ""
    /\ "Ref_OrphaCode" \notin DOMAIN DataRows[1]

-----------------------------------------------------------------------------
(* Properties of the block boundaries of the tag-block reader *)

\* the lines of the stream as the reader sees them: line.rstrip()
Seen == [i \in 1..Len(stream) |-> Rstrip(stream[i])]

\* line i follows a blank line that closed a [Term] block, before the next
\* [Term] line: it is neither blank nor the marker, and a blank line lies
\* between the last [Term] line before it and itself
AfterClosedTerm(i) ==
    /\ Seen[i] # <<>> /\ Seen[i] # TermMarker
    /\ \E m \in 1..(i - 1) :
          /\ Seen[m] = TermMarker
          /\ \A k \in (m + 1)..(i - 1) : Seen[k] # TermMarker
          /\ \E b \in (m + 1)..(i - 1) : Seen[b] = <<>>

\* the stream without the lines that follow a closed [Term] block
OutsideRemoved ==
    LET keep == {i \in 1..Len(stream) : ~AfterClosedTerm(i)}
        Nth(n) == CHOOSE i \in keep : Cardinality({j \in keep : j <= i}) = n
    IN [n \in 1..Cardinality(keep) |-> stream[Nth(n)]]

\* C29: the non-blank lines that follow a blank line which closed a [Term]
\* block, up to the next [Term] line, are in the tags of no Term: the Terms
\* yielded are those of the stream without these lines.
C29_LinesOutsideInNoTerm ==
    obo_pc = "done" => yielded = ParseOboFile(OutsideRemoved, <<>>, <<>>)

\* C29 for the streams in which no line but the marker itself starts with [Term]
C29_LinesOutsideInNoTermUnlessPrefixed ==
    (obo_pc = "done" /\ \A i \in 1..Len(stream) :
                           StartsWith(Seen[i], TermMarker) => Seen[i] = TermMarker)
        => yielded = ParseOboFile(OutsideRemoved, <<>>, <<>>)

\* the index of the most recent block boundary of the stream, a [Term] line or
\* a blank line; 0 when there is none yet
LastBoundary ==
    LET bs == {i \in 1..Len(stream) : Seen[i] = TermMarker \/ Seen[i] = <<>>}
    IN IF bs = {} THEN 0 ELSE CHOOSE i \in bs : \A j \in bs : j <= i

\* C30: at every step the buffer of the in-progress block holds only the lines
\* received since the most recent block boundary: the [Term] line and what
\* follows it, or what follows the blank line; no line of a block finalized
\* before is kept.
C30_BufferSinceBoundary ==
    obo_pc \in {"reading", "done"} =>
        current_block =
            IF LastBoundary > 0 /\ Seen[LastBoundary] = TermMarker
            THEN SubSeq(Seen, LastBoundary, Len(stream))
            ELSE SubSeq(Seen, LastBoundary + 1, Len(stream))

\* a Term has been yielded at a blank line, and the buffer holds the one line
\* read after it
C30_Witness ==
    /\ obo_pc = "reading"
    /\ Len(stream) = 4
    /\ Seen[3] = <<>>
    /\ Len(yielded) = 1
    /\ current_block = <<Seen[4]>>
    /\ Seen[4] # TermMarker

====
